---- MODULE Spec2Model ----
\* A model of the lambda-Pi interpreter core (pi-lib): lowering of the AST,
\* the NbE evaluator, readback, substitution, the bidirectional checker and
\* the statement driver.  Terms, values and results are tagged tuples whose
\* first component is the name of the Rust enum variant.
EXTENDS Integers, Sequences, FiniteSets, TLC

\* ---------------------------------------------------------------------
\* State: the driver's environment and a record of the last statement
\* ---------------------------------------------------------------------
VARIABLES
    env,     \* the driver's TypeCtx: vals is Delta, types is Gamma
    prev,    \* env as it was before the last statement
    last,    \* the last statement handled
    res,     \* the result handle_statement returned for it
    steps,   \* the calls made on the statement's term, in order
    log,     \* the bindings made by successful Declare and Let, newest first
    probe,   \* the last call made on a function of the core alone, with its result
    repl,    \* the interactive loop: its status, log level, last line and last output
    stlc     \* the simply typed checker: its Env and the last call of type_checking

vars == <<env, prev, last, res, steps, log, probe, repl, stlc>>

\* ---------------------------------------------------------------------
\* Results (EvalResult<T>); a panic aborts the whole computation.
\* ---------------------------------------------------------------------
Ok(v) == <<"Ok", v>>

Err(kind, msg) == <<"Err", kind, msg>>

Panic(msg) == <<"Panic", msg>>

IsOk(r) == r[1] = "Ok"

IsErr(r) == r[1] = "Err"

IsPanic(r) == r[1] = "Panic"

\* ---------------------------------------------------------------------
\* VariableName, Term, CheckableTerm, Value, Neutral
\* ---------------------------------------------------------------------
Global(s) == <<"Global", s>>

Local(k) == <<"Local", k>>

Quote(k) == <<"Quote", k>>

AnnotatedTerm(term, ty) == <<"AnnotatedTerm", term, ty>>

Var(name) == <<"Var", name>>

Bounded(idx) == <<"Bounded", idx>>

App(clos, arg) == <<"App", clos, arg>>

DependentFunctionSpace(arg, ret) == <<"DependentFunctionSpace", arg, ret>>

TermUniverse == <<"Universe">>

TermZero == <<"Zero">>

TermNat == <<"Nat">>

TermSucc(pred) == <<"Succ", pred>>

\* The place a panic took in a term that a panicking function was building.
PanicTerm == <<"Panic">>

InfereableTerm(term) == <<"InfereableTerm", term>>

Lambda(term) == <<"Lambda", term>>

CheckableSucc(term) == <<"CheckableSucc", term>>

CheckableZero == <<"CheckableZero">>

VNeutral(n) == <<"VNeutral", n>>

VAbs(clos) == <<"VAbs", clos>>

VUniverse == <<"VUniverse">>

VPi(val, body) == <<"VPi", val, body>>

VZero == <<"VZero">>

VSucc(pred) == <<"VSucc", pred>>

VNat == <<"VNat">>

NVar(name) == <<"NVar", name>>

NApp(clos, arg) == <<"NApp", clos, arg>>

\* ---------------------------------------------------------------------
\* Ctx<T>: a cons list, newest entry first.
\* ---------------------------------------------------------------------
Nil == <<>>

push(ctx, elem) == <<elem>> \o ctx

\* ctx.into_iter().find(|(n, _)| n == name): the first, i.e. newest, match.
find(ctx, name) ==
    LET I == {i \in DOMAIN ctx : ctx[i][1] = name}
    IN IF I = {} THEN <<"None">>
       ELSE <<"Some", ctx[CHOOSE i \in I : \A j \in I : i <= j]>>

\* ctx.into_iter().nth(idx)
nth(ctx, idx) == IF idx + 1 \in DOMAIN ctx THEN <<"Some", ctx[idx + 1]>> ELSE <<"None">>

\* impl Index<usize> for Ctx<T>: ctx[index]
ctx_index(ctx, idx) ==
    IF idx + 1 \in DOMAIN ctx THEN Ok(ctx[idx + 1]) ELSE Panic(<<"Index out of bounds">>)

EvalCtx(vals, stack) == [vals |-> vals, stack |-> stack]

TypeCtx(vals, types) == [vals |-> vals, types |-> types]

EmptyTypeCtx == TypeCtx(Nil, Nil)

EmptyEvalCtx == EvalCtx(Nil, Nil)

\* impl From<TypeCtx> for EvalCtx: the definitions are kept and the type of
\* every typing entry is pushed, newest first, on the bounded-index stack.
RECURSIVE PushTypes(_, _)
PushTypes(types, stack) ==
    IF types = Nil THEN stack
    ELSE PushTypes(Tail(types), push(stack, Head(types)[2]))

Into(ctx) == EvalCtx(ctx.vals, PushTypes(ctx.types, Nil))

\* ---------------------------------------------------------------------
\* The evaluator, the readback and the checker call one another; every
\* call goes through Rec, which dispatches to the definition of the
\* function called (defined below, after the last of them).
\* ---------------------------------------------------------------------
RECURSIVE Rec(_)

call(clos, x) == Rec(<<"call", clos, x>>)

val_app(clos, arg) == Rec(<<"val_app", clos, arg>>)

eval_checked(term, ctx) == Rec(<<"eval_checked", term, ctx>>)

eval(term, ctx) == Rec(<<"eval", term, ctx>>)

lift_neutral(de_brujin_index, n) == Rec(<<"lift_neutral", de_brujin_index, n>>)

lift(de_brujin_index, val) == Rec(<<"lift", de_brujin_index, val>>)

type_check_App(de_brujin_index, term, ctx) == Rec(<<"type_check_App", de_brujin_index, term, ctx>>)

type_check(de_brujin_index, term, ctx) == Rec(<<"type_check", de_brujin_index, term, ctx>>)

sanity_check(de_brujin_index, term, ctx, ty) == Rec(<<"sanity_check", de_brujin_index, term, ctx, ty>>)

\* ---------------------------------------------------------------------
\* Closure
\* ---------------------------------------------------------------------
Closure(body, ctx) == <<"Closure", body, ctx>>


\* Closure::call reading the definitions from the driver's environment
\* instead of the captured one.
call_sharedEnv(clos, x) ==
    eval_checked(clos[2], [vals |-> env.vals, stack |-> push(clos[3].stack, x)])

\* Closure::call with the function built by eval/eval_checked: the argument
\* is pushed on the bounded-index stack of the captured context.
call_impl(clos, x) ==
    eval_checked(clos[2], [clos[3] EXCEPT !.stack = push(@, x)])

\* val_app refusing to extend a neutral spine.
val_app_rejectsNeutral(clos, arg) ==
    CASE clos[1] = "VAbs" -> call(clos[2], arg)
      [] OTHER -> Err("TypeMismatch", <<"Cannot apply a non-function value", clos>>)

val_app_impl(clos, arg) ==
    CASE clos[1] = "VAbs" -> call(clos[2], arg)
      [] clos[1] = "VNeutral" -> Ok(VNeutral(NApp(clos[2], arg)))
      [] OTHER -> Err("TypeMismatch", <<"Cannot apply a non-function value", clos>>)

\* eval_checked evaluating the body of a Lambda before it builds the
\* closure, and failing when the body fails.
eval_checked_eager(term, ctx) ==
    CASE term[1] = "InfereableTerm" -> eval(term[2], ctx)
      [] term[1] = "Lambda" ->
            LET body == eval_checked(term[2], [ctx EXCEPT !.stack = push(@, VZero)])
            IN IF IsOk(body) THEN Ok(VAbs(Closure(term[2], ctx))) ELSE body
      [] term[1] = "CheckableSucc" ->
            LET pred == eval_checked(term[2], ctx)
            IN IF IsOk(pred) THEN Ok(VSucc(pred[2])) ELSE pred
      [] term[1] = "CheckableZero" -> Ok(VZero)

eval_checked_impl(term, ctx) ==
    CASE term[1] = "InfereableTerm" -> eval(term[2], ctx)
      [] term[1] = "Lambda" -> Ok(VAbs(Closure(term[2], ctx)))
      [] term[1] = "CheckableSucc" ->
            LET pred == eval_checked(term[2], ctx)
            IN IF IsOk(pred) THEN Ok(VSucc(pred[2])) ELSE pred
      [] term[1] = "CheckableZero" -> Ok(VZero)

eval_impl(term, ctx) ==
    CASE term[1] = "AnnotatedTerm" -> eval_checked(term[2], ctx)
      [] term[1] = "DependentFunctionSpace" ->
            LET val == eval_checked(term[2], ctx)
            IN IF IsOk(val) THEN Ok(VPi(val[2], Closure(term[3], ctx))) ELSE val
      [] term[1] = "Var" ->
            LET f == find(ctx.vals, term[2])
            IN IF f[1] = "Some" THEN Ok(f[2][2]) ELSE Ok(VNeutral(NVar(term[2])))
      [] term[1] = "Bounded" ->
            LET v == nth(ctx.stack, term[2])
            IN IF v[1] = "Some" THEN Ok(v[2])
               ELSE Err("UnboundVariable", <<"index", term[2]>>)
      [] term[1] = "App" ->
            LET clos == eval(term[2], ctx)
                arg == eval_checked(term[3], ctx)
            IN IF ~IsOk(clos) THEN clos
               ELSE IF ~IsOk(arg) THEN arg
               ELSE val_app(clos[2], arg[2])
      [] term[1] = "Universe" -> Ok(VUniverse)
      [] term[1] = "Zero" -> Ok(VZero)
      [] term[1] = "Nat" -> Ok(VNat)
      [] term[1] = "Succ" ->
            LET pred == eval(term[2], ctx)
            IN IF IsOk(pred) THEN Ok(VSucc(pred[2])) ELSE pred
      [] OTHER -> Panic(<<"not implemented yet", term>>)

\* ---------------------------------------------------------------------
\* Readback (lift) and substitution
\* ---------------------------------------------------------------------

\* lift_neutral turning a quoted variable into its level instead of its index.
lift_neutral_level(de_brujin_index, n) ==
    CASE n[1] = "NApp" -> App(lift_neutral(de_brujin_index, n[2]), lift(de_brujin_index, n[3]))
      [] n[1] = "NVar" ->
            IF n[2][1] = "Quote" THEN Bounded(n[2][2]) ELSE Var(n[2])

lift_neutral_impl(de_brujin_index, n) ==
    CASE n[1] = "NApp" -> App(lift_neutral(de_brujin_index, n[2]), lift(de_brujin_index, n[3]))
      [] n[1] = "NVar" ->
            IF n[2][1] = "Quote"
            THEN (IF n[2][2] < de_brujin_index
                  THEN Bounded(de_brujin_index - n[2][2] - 1)
                  ELSE PanicTerm)   \* usize subtraction overflow
            ELSE Var(n[2])

\* lift reading the body of a function back at the depth of the function.
lift_sameDepth(de_brujin_index, val) ==
    CASE val[1] = "VAbs" ->
            LET body == call(val[2], VNeutral(NVar(Quote(de_brujin_index))))
            IN IF IsOk(body) THEN Lambda(lift(de_brujin_index, body[2]))
               ELSE PanicTerm
      [] val[1] = "VNeutral" -> InfereableTerm(lift_neutral(de_brujin_index, val[2]))
      [] val[1] = "VUniverse" -> InfereableTerm(TermUniverse)
      [] val[1] = "VPi" ->
            LET arg == lift(de_brujin_index, val[2])
                body == call(val[3], VNeutral(NVar(Quote(de_brujin_index))))
            IN IF IsOk(body)
               THEN InfereableTerm(DependentFunctionSpace(arg, lift(de_brujin_index + 1, body[2])))
               ELSE PanicTerm
      [] val[1] = "VZero" -> CheckableZero
      [] val[1] = "VSucc" -> CheckableSucc(lift(de_brujin_index, val[2]))
      [] val[1] = "VNat" -> InfereableTerm(TermNat)

lift_impl(de_brujin_index, val) ==
    CASE val[1] = "VAbs" ->
            LET body == call(val[2], VNeutral(NVar(Quote(de_brujin_index))))
            IN IF IsOk(body) THEN Lambda(lift(de_brujin_index + 1, body[2]))
               ELSE PanicTerm       \* expect("closure call failed")
      [] val[1] = "VNeutral" -> InfereableTerm(lift_neutral(de_brujin_index, val[2]))
      [] val[1] = "VUniverse" -> InfereableTerm(TermUniverse)
      [] val[1] = "VPi" ->
            LET arg == lift(de_brujin_index, val[2])
                body == call(val[3], VNeutral(NVar(Quote(de_brujin_index))))
            IN IF IsOk(body)
               THEN InfereableTerm(DependentFunctionSpace(arg, lift(de_brujin_index + 1, body[2])))
               ELSE PanicTerm       \* expect("closure call failed")
      [] val[1] = "VZero" -> CheckableZero
      [] val[1] = "VSucc" -> CheckableSucc(lift(de_brujin_index, val[2]))
      [] val[1] = "VNat" -> InfereableTerm(TermNat)

\* TRUE when the construction of the term ran into a panic.
RECURSIVE Panicked(_)
Panicked(t) ==
    CASE t[1] = "Panic" -> TRUE
      [] t[1] \in {"AnnotatedTerm", "App", "DependentFunctionSpace"} ->
            Panicked(t[2]) \/ Panicked(t[3])
      [] t[1] \in {"Succ", "InfereableTerm", "Lambda", "CheckableSucc"} -> Panicked(t[2])
      [] OTHER -> FALSE

RECURSIVE subst(_, _, _)
RECURSIVE subst_checked(_, _, _)

subst(de_brujin_index, t_what, t_for) ==
    CASE t_for[1] = "AnnotatedTerm" ->
            AnnotatedTerm(subst_checked(de_brujin_index, t_what, t_for[2]),
                          subst_checked(de_brujin_index, t_what, t_for[3]))
      [] t_for[1] = "Bounded" ->
            IF t_for[2] = de_brujin_index THEN t_what ELSE t_for
      [] t_for[1] = "Var" -> t_for
      [] t_for[1] = "App" ->
            App(subst(de_brujin_index, t_what, t_for[2]),
                subst_checked(de_brujin_index, t_what, t_for[3]))
      [] t_for[1] = "Universe" -> t_for
      [] t_for[1] = "DependentFunctionSpace" ->
            DependentFunctionSpace(subst_checked(de_brujin_index, t_what, t_for[2]),
                                   subst_checked(de_brujin_index + 1, t_what, t_for[3]))
      [] t_for[1] = "Zero" -> t_for
      [] t_for[1] = "Nat" -> t_for
      [] t_for[1] = "Succ" -> TermSucc(subst(de_brujin_index, t_what, t_for[2]))
      [] OTHER -> PanicTerm         \* todo!()

\* subst_checked entering a Lambda body without going one index up.
subst_checked_sameIndex(de_brujin_index, t_what, t_for) ==
    CASE t_for[1] = "InfereableTerm" ->
            InfereableTerm(subst(de_brujin_index, t_what, t_for[2]))
      [] t_for[1] = "Lambda" ->
            Lambda(subst_checked(de_brujin_index, t_what, t_for[2]))
      [] t_for[1] = "CheckableSucc" ->
            CheckableSucc(subst_checked(de_brujin_index, t_what, t_for[2]))
      [] t_for[1] = "CheckableZero" -> t_for

subst_checked(de_brujin_index, t_what, t_for) ==
    CASE t_for[1] = "InfereableTerm" ->
            InfereableTerm(subst(de_brujin_index, t_what, t_for[2]))
      [] t_for[1] = "Lambda" ->
            Lambda(subst_checked(de_brujin_index + 1, t_what, t_for[2]))
      [] t_for[1] = "CheckableSucc" ->
            CheckableSucc(subst_checked(de_brujin_index, t_what, t_for[2]))
      [] t_for[1] = "CheckableZero" -> t_for

\* ---------------------------------------------------------------------
\* The bidirectional checker
\* ---------------------------------------------------------------------
Unit == <<"Unit">>

LookupAttempts == 128

\* lookup: while the value is a bare neutral variable with a typing entry,
\* replace it by the type of that entry, at most `attempt` times.
RECURSIVE lookup(_, _, _)
lookup(term, ctx, attempt) ==
    IF attempt = 0 THEN Ok(term)
    ELSE IF term[1] = "VNeutral" /\ term[2][1] = "NVar"
         THEN LET f == find(ctx, term[2][2])
              IN IF f[1] = "Some" THEN lookup(f[2][2], ctx, attempt - 1) ELSE Ok(term)
         ELSE Ok(term)


\* The arm for Term::Var taking the oldest typing entry of the name.
type_check_Var_oldest(name, ctx) ==
    LET I == {i \in DOMAIN ctx.types : ctx.types[i][1] = name}
    IN IF I = {} THEN Err("UnboundVariable", <<"name", name>>)
       ELSE Ok(ctx.types[CHOOSE i \in I : \A j \in I : j <= i][2])

\* type_check, the arm for Term::Var: the newest typing entry of the name.
type_check_Var(name, ctx) ==
    LET f == find(ctx.types, name)
    IN IF f[1] = "Some" THEN Ok(f[2][2])
       ELSE Err("UnboundVariable", <<"name", name>>)

\* The arm for Term::App with the check of the argument left out.
type_check_App_uncheckedArg(de_brujin_index, term, ctx) ==
    LET ty == type_check(de_brujin_index, term[2], ctx)
        arg == eval_checked(term[3], Into(ctx))
    IN IF ~IsOk(ty) THEN ty
       ELSE IF ty[2][1] = "VPi"
            THEN (IF ~IsOk(arg) THEN arg ELSE call(ty[2][3], arg[2]))
            ELSE Err("TypeMismatch", <<"Expected a dependent function, found", ty[2]>>)

\* type_check, the arm for Term::App.
type_check_App_impl(de_brujin_index, term, ctx) ==
    LET ty == type_check(de_brujin_index, term[2], ctx)
        argOk == sanity_check(de_brujin_index, term[3], ctx, ty[2][2])
        arg == eval_checked(term[3], Into(ctx))
    IN IF ~IsOk(ty) THEN ty
       ELSE IF ty[2][1] = "VPi"
            THEN (IF ~IsOk(argOk) THEN argOk
                  ELSE IF ~IsOk(arg) THEN arg
                  ELSE call(ty[2][3], arg[2]))
            ELSE Err("TypeMismatch", <<"Expected a dependent function, found", ty[2]>>)

\* type_check, the arm for Term::DependentFunctionSpace, opening the
\* codomain: the depth the codomain is checked at, the codomain with its
\* index 0 replaced by the local of this depth, and the context with the
\* typing entry of that local.
open_codomain(de_brujin_index, term, ctx, arg_ty) ==
    << de_brujin_index + 1,
       subst_checked(0, Var(Local(de_brujin_index)), term[3]),
       [ctx EXCEPT !.types = push(@, <<Local(de_brujin_index), arg_ty>>)] >>

\* The Lambda arm opening a body without a typing entry for its local.
open_body_noEntry(de_brujin_index, term, ctx, ty) ==
    << de_brujin_index + 1,
       subst_checked(0, Var(Local(de_brujin_index)), term[2]),
       ctx,
       call(ty[3], VNeutral(NVar(Local(de_brujin_index)))) >>

\* sanity_check, the arm for CheckableTerm::Lambda against a VPi, opening
\* the body: the depth the body is checked at, the body with its index 0
\* replaced by the local of this depth, the context with the typing entry
\* of that local, and the codomain applied to the local.
open_body(de_brujin_index, term, ctx, ty) ==
    << de_brujin_index + 1,
       subst_checked(0, Var(Local(de_brujin_index)), term[2]),
       [ctx EXCEPT !.types = push(@, <<Local(de_brujin_index), ty[2]>>)],
       call(ty[3], VNeutral(NVar(Local(de_brujin_index)))) >>

\* The arm for Term::AnnotatedTerm evaluating the annotation before it is
\* checked to be a type.
type_check_Annotated_evalFirst(de_brujin_index, term, ctx) ==
    LET isType == sanity_check(de_brujin_index, term[3], ctx, VUniverse)
        ty == eval_checked(term[3], EvalCtx(ctx.vals, Nil))
        checked == sanity_check(de_brujin_index, term[2], ctx, ty[2])
    IN IF ~IsOk(ty) THEN ty
       ELSE IF ~IsOk(isType) THEN isType
       ELSE IF ~IsOk(checked) THEN checked
       ELSE Ok(ty[2])

\* type_check, the arm for Term::AnnotatedTerm.
type_check_Annotated(de_brujin_index, term, ctx) ==
    LET isType == sanity_check(de_brujin_index, term[3], ctx, VUniverse)
        ty == eval_checked(term[3], EvalCtx(ctx.vals, Nil))
        checked == sanity_check(de_brujin_index, term[2], ctx, ty[2])
    IN IF ~IsOk(isType) THEN isType
       ELSE IF ~IsOk(ty) THEN ty
       ELSE IF ~IsOk(checked) THEN checked
       ELSE Ok(ty[2])

type_check_impl(de_brujin_index, term, ctx) ==
    CASE term[1] = "AnnotatedTerm" -> type_check_Annotated(de_brujin_index, term, ctx)
      [] term[1] = "Universe" -> Ok(VUniverse)
      [] term[1] = "DependentFunctionSpace" ->
            LET isType == sanity_check(de_brujin_index, term[2], ctx, VUniverse)
                arg_ty == eval_checked(term[2], EvalCtx(ctx.vals, Nil))
                opened == open_codomain(de_brujin_index, term, ctx, arg_ty[2])
                retIsType == sanity_check(opened[1], opened[2], opened[3], VUniverse)
            IN IF ~IsOk(isType) THEN isType
               ELSE IF ~IsOk(arg_ty) THEN arg_ty
               ELSE IF Panicked(opened[2]) THEN Panic(<<"subst">>)
               ELSE IF ~IsOk(retIsType) THEN retIsType
               ELSE Ok(VUniverse)
      [] term[1] = "Var" -> type_check_Var(term[2], ctx)
      [] term[1] = "App" -> type_check_App(de_brujin_index, term, ctx)
      [] term[1] = "Nat" -> Ok(VUniverse)
      [] term[1] = "Zero" -> Ok(VNat)
      [] term[1] = "Succ" ->
            LET pred_ty == type_check(de_brujin_index, term[2], ctx)
            IN IF ~IsOk(pred_ty) THEN pred_ty
               ELSE IF pred_ty[2] = VNat THEN Ok(VNat)
               ELSE Err("TypeMismatch", <<"Expected a natural number, found", pred_ty[2]>>)
      [] OTHER -> Panic(<<"not implemented yet", term>>)

sanity_check_impl(de_brujin_index, term, ctx, ty) ==
    CASE term[1] = "CheckableZero" -> Ok(Unit)
      [] term[1] = "InfereableTerm" ->
            LET inferred == type_check(de_brujin_index, term[2], ctx)
                val == lookup(inferred[2], ctx.types, LookupAttempts)
                ty1 == lookup(ty, ctx.types, LookupAttempts)
                lhs == lift(0, val[2])
                rhs == lift(0, ty1[2])
            IN IF ~IsOk(inferred) THEN inferred
               ELSE IF Panicked(lhs) \/ Panicked(rhs) THEN Panic(<<"closure call failed">>)
               ELSE IF lhs # rhs
                    THEN Err("TypeMismatch", <<"expected", rhs, "found", lhs>>)
                    ELSE Ok(Unit)
      [] term[1] = "Lambda" ->
            IF ty[1] = "VPi"
            THEN LET opened == open_body(de_brujin_index, term, ctx, ty)
                 IN IF Panicked(opened[2]) THEN Panic(<<"subst">>)
                    ELSE IF ~IsOk(opened[4]) THEN opened[4]
                    ELSE sanity_check(opened[1], opened[2], opened[3], opened[4][2])
            ELSE Err("TypeMismatch", <<"Expected a dependent function, found", ty>>)
      [] term[1] = "CheckableSucc" ->
            LET val == eval_checked(term[2], EmptyEvalCtx)
            IN IF ~IsOk(val) THEN val
               ELSE CASE val[2][1] = "VZero" -> Ok(Unit)
                      [] val[2][1] = "VSucc" ->
                            LET predl == lift(de_brujin_index, val[2][2])
                                predr == lift(de_brujin_index, VNat)
                            IN IF Panicked(predl) \/ Panicked(predr)
                               THEN Panic(<<"closure call failed">>)
                               ELSE IF predl = predr THEN Ok(Unit)
                               ELSE Err("TypeMismatch", <<"expected", predr, "found", predl>>)
                      [] OTHER -> Err("TypeMismatch",
                                      <<"Expected a natural number or a successor">>)

Rec(c) ==
    CASE c[1] = "call" -> call_impl(c[2], c[3])
      [] c[1] = "val_app" -> val_app_impl(c[2], c[3])
      [] c[1] = "eval_checked" -> eval_checked_impl(c[2], c[3])
      [] c[1] = "eval" -> eval_impl(c[2], c[3])
      [] c[1] = "lift_neutral" -> lift_neutral_impl(c[2], c[3])
      [] c[1] = "lift" -> lift_impl(c[2], c[3])
      [] c[1] = "type_check_App" -> type_check_App_impl(c[2], c[3], c[4])
      [] c[1] = "type_check" -> type_check_impl(c[2], c[3], c[4])
      [] c[1] = "sanity_check" -> sanity_check_impl(c[2], c[3], c[4], c[5])

\* ---------------------------------------------------------------------
\* AstNode, Statement and the lowering of the AST
\* ---------------------------------------------------------------------
AstAnnotatedTerm(term, ty) == <<"AstAnnotatedTerm", term, ty>>

AstType(t) == <<"AstType", t>>

AstApp(clos, arg) == <<"AstApp", clos, arg>>

AstNat == <<"AstNat">>

AstSucc(e) == <<"AstSucc", e>>

AstNum(n) == <<"AstNum", n>>

AstVar(s) == <<"AstVar", s>>

AstUniverse == <<"AstUniverse">>

AstLambda(arg, body) == <<"AstLambda", arg, body>>

AstDependentFunctionSpace(arg, ret) == <<"AstDependentFunctionSpace", arg, ret>>

AstForall(args, ret) == <<"AstForall", args, ret>>

StmtEval(e) == <<"Eval", e>>

StmtCheck(e) == <<"Check", e>>

StmtDeclare(ident, ty) == <<"Declare", ident, ty>>

StmtLet(ident, def) == <<"Let", ident, def>>

RECURSIVE num_to_succ(_)
num_to_succ(num) == IF num = 0 THEN TermZero ELSE TermSucc(num_to_succ(num - 1))

\* position counted from the bottom of the stack: the outermost binder of
\* the name.
position_outermost(symbols, name) ==
    LET I == {i \in DOMAIN symbols : symbols[i] = name}
    IN IF I = {} THEN <<"None">>
       ELSE <<"Some", Len(symbols) - (CHOOSE i \in I : \A j \in I : i <= j)>>

\* symbols.iter().rev().position(|x| x == name)
position(symbols, name) ==
    LET I == {i \in DOMAIN symbols : symbols[i] = name}
    IN IF I = {} THEN <<"None">>
       ELSE <<"Some", Len(symbols) - (CHOOSE i \in I : \A j \in I : j <= i)>>

RECURSIVE ast_transform(_, _)
RECURSIVE ast_transform_checkable(_, _)
RECURSIVE build_forall_binding_list(_, _, _)

ast_transform_checkable(ast, symbols) ==
    IF ast[1] = "AstLambda"
    THEN LET body == ast_transform_checkable(ast[3], Append(symbols, ast[2]))
         IN IF IsOk(body) THEN Ok(Lambda(body[2])) ELSE body
    ELSE LET term == ast_transform(ast, symbols)
         IN IF IsOk(term) THEN Ok(InfereableTerm(term[2])) ELSE term

ast_transform(ast, symbols) ==
    CASE ast[1] = "AstUniverse" -> Ok(TermUniverse)
      [] ast[1] = "AstNat" -> Ok(TermNat)
      [] ast[1] = "AstSucc" ->
            LET pred == ast_transform(ast[2], symbols)
            IN IF IsOk(pred) THEN Ok(TermSucc(pred[2])) ELSE pred
      [] ast[1] = "AstAnnotatedTerm" ->
            LET t == ast_transform_checkable(ast[2], symbols)
                ty == ast_transform_checkable(ast[3], symbols)
            IN IF ~IsOk(t) THEN t
               ELSE IF ~IsOk(ty) THEN ty
               ELSE Ok(AnnotatedTerm(t[2], ty[2]))
      [] ast[1] = "AstVar" ->
            LET index == position(symbols, ast[2])
            IN IF index[1] = "Some" THEN Ok(Bounded(index[2]))
               ELSE Ok(Var(Global(ast[2])))
      [] ast[1] = "AstLambda" ->
            Err("ParseError", <<"Cannot parse lambda without type annotation.">>)
      [] ast[1] = "AstApp" ->
            LET clos == ast_transform(ast[2], symbols)
                arg == ast_transform_checkable(ast[3], symbols)
            IN IF ~IsOk(clos) THEN clos
               ELSE IF ~IsOk(arg) THEN arg
               ELSE Ok(App(clos[2], arg[2]))
      [] ast[1] = "AstDependentFunctionSpace" ->
            LET arg == ast_transform_checkable(ast[2], symbols)
                ret == ast_transform_checkable(ast[3], symbols)
            IN IF ~IsOk(arg) THEN arg
               ELSE IF ~IsOk(ret) THEN ret
               ELSE Ok(DependentFunctionSpace(arg[2], ret[2]))
      [] ast[1] = "AstNum" ->
            Ok(AnnotatedTerm(InfereableTerm(num_to_succ(ast[2])), InfereableTerm(TermNat)))
      [] ast[1] = "AstForall" -> build_forall_binding_list(ast[2], ast[3], symbols)
      [] OTHER -> Panic(<<"todo", ast>>)

build_forall_binding_list(bindings, ret, symbols) ==
    IF bindings = <<>>
    THEN Err("ParseError", <<"Cannot parse empty forall binding list.">>)
    ELSE IF Head(bindings)[1] = "AstAnnotatedTerm" /\ Head(bindings)[2][1] = "AstVar"
    THEN LET arg == ast_transform(Head(bindings)[3], symbols)
             symbols1 == Append(symbols, Head(bindings)[2][2])
             ret1 == IF Len(bindings) = 1
                     THEN ast_transform(ret, symbols1)
                     ELSE build_forall_binding_list(Tail(bindings), ret, symbols1)
         IN IF ~IsOk(arg) THEN arg
            ELSE IF ~IsOk(ret1) THEN ret1
            ELSE Ok(DependentFunctionSpace(InfereableTerm(arg[2]), InfereableTerm(ret1[2])))
    ELSE Err("ParseError", <<"Cannot parse forall binding list.">>)

\* ---------------------------------------------------------------------
\* The statement driver.  The outcome of handling one statement is the
\* context it leaves, the result it returns and the calls it made on the
\* statement's term, in order.
\* ---------------------------------------------------------------------
Outcome(c, r, s) == [ctx |-> c, res |-> r, steps |-> s]

\* Statement::Eval(e) | Statement::Check(e), evaluating without waiting for
\* the checker.
EvalArm_evalFirst(e, ctx) ==
    LET term == ast_transform(e, <<>>)
        ty == type_check(0, term[2], ctx)
    IN IF ~IsOk(term) THEN Outcome(ctx, term, <<"ast_transform">>)
       ELSE Outcome(ctx, eval(term[2], Into(ctx)), <<"ast_transform", "eval", "type_check">>)

\* Statement::Eval(e) | Statement::Check(e)
EvalArm(e, ctx) ==
    LET term == ast_transform(e, <<>>)
        ty == type_check(0, term[2], ctx)
    IN IF ~IsOk(term) THEN Outcome(ctx, term, <<"ast_transform">>)
       ELSE IF ~IsOk(ty) THEN Outcome(ctx, ty, <<"ast_transform", "type_check">>)
       ELSE Outcome(ctx, eval(term[2], Into(ctx)), <<"ast_transform", "type_check", "eval">>)

\* Statement::Declare(ident, ty), publishing the entry before sanity_check.
DeclareArm_pushFirst(ident, e, ctx) ==
    LET term == ast_transform(e, <<>>)
        ty == type_check(0, term[2], ctx)
        isType == sanity_check(0, InfereableTerm(term[2]), ctx, VUniverse)
        v == eval(term[2], Into(ctx))
        ctx1 == [ctx EXCEPT !.types = push(@, <<Global(ident), v[2]>>)]
    IN IF ~IsOk(term) THEN Outcome(ctx, term, <<"ast_transform">>)
       ELSE IF ~IsOk(ty) THEN Outcome(ctx, ty, <<"ast_transform", "type_check">>)
       ELSE IF ~IsOk(v) THEN Outcome(ctx, v, <<"ast_transform", "type_check", "eval">>)
       ELSE IF ~IsOk(isType)
            THEN Outcome(ctx1, isType, <<"ast_transform", "type_check", "eval", "sanity_check">>)
       ELSE Outcome(ctx1, v, <<"ast_transform", "type_check", "eval", "sanity_check">>)

\* Statement::Declare(ident, ty), also recording the value as a definition.
DeclareArm_alsoDefines(ident, e, ctx) ==
    LET term == ast_transform(e, <<>>)
        ty == type_check(0, term[2], ctx)
        isType == sanity_check(0, InfereableTerm(term[2]), ctx, VUniverse)
        v == eval(term[2], Into(ctx))
    IN IF ~IsOk(term) THEN Outcome(ctx, term, <<"ast_transform">>)
       ELSE IF ~IsOk(ty) THEN Outcome(ctx, ty, <<"ast_transform", "type_check">>)
       ELSE IF ~IsOk(isType)
            THEN Outcome(ctx, isType, <<"ast_transform", "type_check", "sanity_check">>)
       ELSE IF ~IsOk(v)
            THEN Outcome(ctx, v, <<"ast_transform", "type_check", "sanity_check", "eval">>)
       ELSE Outcome([vals |-> push(ctx.vals, <<Global(ident), v[2]>>),
                     types |-> push(ctx.types, <<Global(ident), v[2]>>)], v,
                    <<"ast_transform", "type_check", "sanity_check", "eval">>)

\* Statement::Declare(ident, ty)
DeclareArm(ident, e, ctx) ==
    LET term == ast_transform(e, <<>>)
        ty == type_check(0, term[2], ctx)
        isType == sanity_check(0, InfereableTerm(term[2]), ctx, VUniverse)
        v == eval(term[2], Into(ctx))
    IN IF ~IsOk(term) THEN Outcome(ctx, term, <<"ast_transform">>)
       ELSE IF ~IsOk(ty) THEN Outcome(ctx, ty, <<"ast_transform", "type_check">>)
       ELSE IF ~IsOk(isType)
            THEN Outcome(ctx, isType, <<"ast_transform", "type_check", "sanity_check">>)
       ELSE IF ~IsOk(v)
            THEN Outcome(ctx, v, <<"ast_transform", "type_check", "sanity_check", "eval">>)
       ELSE Outcome([ctx EXCEPT !.types = push(@, <<Global(ident), v[2]>>)], v,
                    <<"ast_transform", "type_check", "sanity_check", "eval">>)

\* Statement::Let(ident, def), recording the definition but not the type.
LetArm_valueOnly(ident, e, ctx) ==
    LET term == ast_transform(e, <<>>)
        ty == type_check(0, term[2], ctx)
        v == eval(term[2], Into(ctx))
    IN IF ~IsOk(term) THEN Outcome(ctx, term, <<"ast_transform">>)
       ELSE IF ~IsOk(ty) THEN Outcome(ctx, ty, <<"ast_transform", "type_check">>)
       ELSE IF ~IsOk(v) THEN Outcome(ctx, v, <<"ast_transform", "type_check", "eval">>)
       ELSE Outcome([ctx EXCEPT !.vals = push(@, <<Global(ident), v[2]>>)], v,
                    <<"ast_transform", "type_check", "eval">>)

\* Statement::Let(ident, def), recording the type but not the definition.
LetArm_typeOnly(ident, e, ctx) ==
    LET term == ast_transform(e, <<>>)
        ty == type_check(0, term[2], ctx)
        v == eval(term[2], Into(ctx))
    IN IF ~IsOk(term) THEN Outcome(ctx, term, <<"ast_transform">>)
       ELSE IF ~IsOk(ty) THEN Outcome(ctx, ty, <<"ast_transform", "type_check">>)
       ELSE IF ~IsOk(v) THEN Outcome(ctx, v, <<"ast_transform", "type_check", "eval">>)
       ELSE Outcome([ctx EXCEPT !.types = push(@, <<Global(ident), ty[2]>>)], v,
                    <<"ast_transform", "type_check", "eval">>)

\* Statement::Let(ident, def)
LetArm(ident, e, ctx) ==
    LET term == ast_transform(e, <<>>)
        ty == type_check(0, term[2], ctx)
        v == eval(term[2], Into(ctx))
    IN IF ~IsOk(term) THEN Outcome(ctx, term, <<"ast_transform">>)
       ELSE IF ~IsOk(ty) THEN Outcome(ctx, ty, <<"ast_transform", "type_check">>)
       ELSE IF ~IsOk(v) THEN Outcome(ctx, v, <<"ast_transform", "type_check", "eval">>)
       ELSE Outcome([vals |-> push(ctx.vals, <<Global(ident), v[2]>>),
                     types |-> push(ctx.types, <<Global(ident), ty[2]>>)], v,
                    <<"ast_transform", "type_check", "eval">>)

handle_statement(stmt, ctx) ==
    CASE stmt[1] \in {"Eval", "Check"} -> EvalArm(stmt[2], ctx)
      [] stmt[1] = "Declare" -> DeclareArm(stmt[2], stmt[3], ctx)
      [] stmt[1] = "Let" -> LetArm(stmt[2], stmt[3], ctx)

\* ---------------------------------------------------------------------
\* The statements the driver is given
\* ---------------------------------------------------------------------
\* The most entries the typing context grows to.
MaxCtx == 3

NatToNat == AstDependentFunctionSpace(AstNat, AstNat)

\* forall A : U . A -> A
IdType ==
    AstForall(<<AstAnnotatedTerm(AstVar("A"), AstUniverse)>>,
              AstDependentFunctionSpace(AstVar("A"), AstVar("A")))

\* (\y -> x) :: Nat -> Nat
ConstX == AstAnnotatedTerm(AstLambda("y", AstVar("x")), NatToNat)

\* (\x -> x) :: Nat -> Nat
IdNat == AstAnnotatedTerm(AstLambda("x", AstVar("x")), NatToNat)

DeclareStmts ==
    { StmtDeclare("A", AstUniverse), StmtDeclare("a", AstVar("A")),
      StmtDeclare("b", AstVar("a")), StmtDeclare("id", IdType),
      StmtDeclare("x", AstUniverse), StmtDeclare("x", AstNat),
      StmtDeclare("x", AstNum(0)) }

LetStmts ==
    { StmtLet("x", AstNum(0)), StmtLet("x", AstNat), StmtLet("f", ConstX),
      StmtLet("f", AstLambda("y", AstVar("y"))) }

EvalTerms ==
    { AstVar("x"), AstVar("foo"), AstNum(0), AstVar("a"),
      AstApp(AstVar("f"), AstNum(0)),
      AstApp(AstApp(AstVar("id"), AstNat), AstNum(0)),
      AstApp(IdNat, AstUniverse), AstApp(IdNat, AstVar("foo")),
      AstApp(AstNat, AstNum(0)),
      AstLambda("y", AstVar("y")),
      AstType("Integer") }

CheckTerms == { AstNum(0), AstVar("x"), AstVar("foo") }


\* ---------------------------------------------------------------------
\* Initial state and the steps of the driver
\* ---------------------------------------------------------------------
NoStmt == <<"None">>

Init ==
    /\ env = EmptyTypeCtx
    /\ prev = EmptyTypeCtx
    /\ last = NoStmt
    /\ res = NoStmt
    /\ steps = <<>>
    /\ log = <<>>
    /\ probe = NoStmt
    /\ repl = NoStmt
    /\ stlc = NoStmt

\* The type the checker infers for the lowered term of a statement.
InferredType(stmt, c) == type_check(0, ast_transform(stmt[Len(stmt)], <<>>)[2], c)

Handle(stmt) ==
    /\ ~IsPanic(res)
    /\ \E o \in {handle_statement(stmt, env)} :
          /\ env' = o.ctx
          /\ prev' = env
          /\ last' = stmt
          /\ res' = o.res
          /\ steps' = o.steps
          /\ log' = IF IsOk(o.res) /\ stmt[1] = "Declare"
                    THEN push(log, <<"Declare", stmt[2], o.res[2], o.res[2]>>)
                    ELSE IF IsOk(o.res) /\ stmt[1] = "Let"
                    THEN push(log, <<"Let", stmt[2], o.res[2], InferredType(stmt, env)[2]>>)
                    ELSE log
          /\ UNCHANGED <<probe, repl, stlc>>

HandleEval == \E e \in EvalTerms : Handle(StmtEval(e))

HandleCheck == \E e \in CheckTerms : Handle(StmtCheck(e))

HandleDeclare ==
    /\ Len(env.types) < MaxCtx
    /\ \E s \in DeclareStmts : Handle(s)

HandleLet ==
    /\ Len(env.types) < MaxCtx
    /\ \E s \in LetStmts : Handle(s)

Next == HandleEval \/ HandleCheck \/ HandleDeclare \/ HandleLet

Spec == Init /\ [][Next]_vars

\* ---------------------------------------------------------------------
\* Properties
\* ---------------------------------------------------------------------
Names == {"A", "a", "b", "id", "x", "f", "foo"}

\* What the checker and the evaluator make of Free(Global(n)) at top level
\* in the current environment.
TypeOf(n) == type_check(0, Var(Global(n)), env)

ValueOf(n) == eval(Var(Global(n)), Into(env))

IsSuffix(s, t) ==
    /\ Len(s) <= Len(t)
    /\ SubSeq(t, Len(t) - Len(s) + 1, Len(t)) = s

\* The lowered term of a statement, its type and its value in context c.
Lowered(stmt) == ast_transform(stmt[Len(stmt)], <<>>)

ValueIn(stmt, c) == eval(Lowered(stmt)[2], Into(c))

\* A binding of the same name, of one of the kinds, newer than log[i].
NewerSame(i, kinds) ==
    \E j \in 1..(i - 1) : log[j][2] = log[i][2] /\ log[j][1] \in kinds

LetEntries == SelectSeq(log, LAMBDA b : b[1] = "Let")

HasStep(name) == \E i \in DOMAIN steps : steps[i] = name

\* C1: the environment changes only when a Declare or a Let succeeds: a
\* statement that returns an error, and every Eval and Check, leaves Gamma
\* and Delta as they were, and every binding of an earlier successful
\* statement is still there, in order.
C1_EnvChangesOnlyOnSuccess ==
    /\ (IsErr(res) => env = prev)
    /\ (last[1] \in {"Eval", "Check"} => env = prev)
    /\ (env # prev => last[1] \in {"Declare", "Let"} /\ IsOk(res))
    /\ IsSuffix(prev.types, env.types)
    /\ IsSuffix(prev.vals, env.vals)
    /\ env.types = [i \in DOMAIN log |-> <<Global(log[i][2]), log[i][4]>>]
    /\ env.vals = [i \in DOMAIN LetEntries |-> <<Global(LetEntries[i][2]), LetEntries[i][3]>>]

\* A statement failed in the checker after two bindings were made, one of
\* them a Let.
C1_Witness ==
    /\ IsErr(res)
    /\ HasStep("type_check")
    /\ Len(env.types) >= 2
    /\ env.vals # Nil

\* The effect of a successful Declare on the two contexts.
DeclareFrame ==
    (last[1] = "Declare" /\ IsOk(res)) =>
        /\ IsOk(ValueIn(last, prev))
        /\ env.types = push(prev.types, <<Global(last[2]), ValueIn(last, prev)[2]>>)
        /\ env.vals = prev.vals

\* C2 as stated: after a successful Declare(name, tau), and unless a later
\* Let binds the name, Free(Global(name)) has the type eval(tau) and
\* evaluates to the neutral variable.
C2_Original ==
    /\ DeclareFrame
    /\ \A i \in DOMAIN log :
         (log[i][1] = "Declare" /\ ~NewerSame(i, {"Let"})) =>
            /\ TypeOf(log[i][2]) = Ok(log[i][3])
            /\ ValueOf(log[i][2]) = Ok(VNeutral(NVar(Global(log[i][2]))))

\* C2: a successful Declare(name, tau) puts exactly Global(name) |-> eval(tau)
\* on top of Gamma and leaves Delta unchanged; Free(Global(name)) then has
\* the type eval(tau) until a later Declare or Let binds the name, and it
\* evaluates to the neutral variable as long as no Let, earlier or later,
\* has bound the name.
C2_DeclareKeepsNameNeutral ==
    /\ DeclareFrame
    /\ \A i \in DOMAIN log :
         log[i][1] = "Declare" =>
            /\ ~NewerSame(i, {"Let", "Declare"}) => TypeOf(log[i][2]) = Ok(log[i][3])
            /\ (\A j \in DOMAIN log : ~(log[j][1] = "Let" /\ log[j][2] = log[i][2]))
                  => ValueOf(log[i][2]) = Ok(VNeutral(NVar(Global(log[i][2]))))

\* A declared name was evaluated by a later statement and came out neutral.
C2_Witness ==
    /\ last = StmtEval(AstVar("a"))
    /\ \E i \in DOMAIN log : log[i][1] = "Declare" /\ log[i][2] = "a"
    /\ res = Ok(VNeutral(NVar(Global("a"))))

\* The effect of a successful Let on the two contexts.
LetFrame ==
    (last[1] = "Let" /\ IsOk(res)) =>
        /\ IsOk(ValueIn(last, prev))
        /\ IsOk(type_check(0, Lowered(last)[2], prev))
        /\ env.vals = push(prev.vals, <<Global(last[2]), ValueIn(last, prev)[2]>>)
        /\ env.types = push(prev.types,
                            <<Global(last[2]), type_check(0, Lowered(last)[2], prev)[2]>>)

\* C3 as stated: after a successful Let(name, t) every later statement sees
\* Free(Global(name)) evaluate to the stored value and have the stored type.
C3_Original ==
    /\ LetFrame
    /\ \A i \in DOMAIN log :
         log[i][1] = "Let" =>
            /\ ValueOf(log[i][2]) = Ok(log[i][3])
            /\ TypeOf(log[i][2]) = Ok(log[i][4])

\* C3: a successful Let(name, t) puts Global(name) |-> eval(t) on top of
\* Delta and Global(name) |-> infer(t) on top of Gamma; Free(Global(name))
\* then evaluates to the stored value until a later Let binds the name, and
\* has the stored type until a later Let or Declare binds the name.
C3_LetUnfolds ==
    /\ LetFrame
    /\ \A i \in DOMAIN log :
         log[i][1] = "Let" =>
            /\ ~NewerSame(i, {"Let"}) => ValueOf(log[i][2]) = Ok(log[i][3])
            /\ ~NewerSame(i, {"Let", "Declare"}) => TypeOf(log[i][2]) = Ok(log[i][4])

\* A name defined by Let was evaluated by a later statement and unfolded.
C3_Witness ==
    /\ last = StmtEval(AstVar("x"))
    /\ log # <<>>
    /\ log[1] = <<"Let", "x", VZero, VNat>>
    /\ res = Ok(VZero)

\* The Lets of x among the bindings older than log[i].
OlderLetsOfX(i) == {k \in DOMAIN log : k > i /\ log[k][1] = "Let" /\ log[k][2] = "x"}

\* C4: Free(Global(x)) evaluates to the value of the newest entry of x in
\* the value environment, and the function f = \y -> x, built by an earlier
\* Let, yields the value x had when f was built, also after x was bound
\* again (the neutral x when x had no definition then).
C4_ShadowingKeepsSnapshots ==
    /\ \A i \in DOMAIN env.vals :
         (\A j \in 1..(i - 1) : env.vals[j][1] # env.vals[i][1]) =>
            eval(Var(env.vals[i][1]), Into(env)) = Ok(env.vals[i][2])
    /\ \A i \in DOMAIN log :
         ( /\ log[i][1] = "Let" /\ log[i][2] = "f" /\ ~NewerSame(i, {"Let"})
           /\ last = StmtEval(AstApp(AstVar("f"), AstNum(0)))
           /\ IsOk(res) ) =>
            res = IF OlderLetsOfX(i) = {}
                  THEN Ok(VNeutral(NVar(Global("x"))))
                  ELSE Ok(log[CHOOSE k \in OlderLetsOfX(i) :
                                \A m \in OlderLetsOfX(i) : k <= m][3])

\* f was built while x was Zero, x was then bound to Nat, and f applied
\* still yields Zero.
C4_Witness ==
    /\ last = StmtEval(AstApp(AstVar("f"), AstNum(0)))
    /\ res = Ok(VZero)
    /\ ValueOf("x") = Ok(VNat)
    /\ Len(env.vals) = 3

\* C5: the evaluator runs on the term of a statement only after the checker
\* accepted it (type_check, and sanity_check too for a Declare); when the
\* checker rejects the term it is not evaluated and the checker's error is
\* the result.
C5_CheckBeforeEval ==
    last # NoStmt =>
        LET term == Lowered(last)
            ty == type_check(0, term[2], prev)
            isType == sanity_check(0, InfereableTerm(term[2]), prev, VUniverse)
            rejected == IF ~IsOk(ty) THEN ty
                        ELSE IF last[1] = "Declare" /\ ~IsOk(isType) THEN isType
                        ELSE Unit
        IN /\ \A i \in DOMAIN steps :
                steps[i] = "eval" =>
                   /\ IsOk(term)
                   /\ rejected = Unit
                   /\ \E j \in 1..(i - 1) : steps[j] = "type_check"
                   /\ last[1] = "Declare" => \E j \in 1..(i - 1) : steps[j] = "sanity_check"
           /\ (IsOk(term) /\ rejected # Unit) => (~HasStep("eval") /\ res = rejected)

\* An ill-typed statement was lowered, rejected by the checker and not
\* evaluated.
C5_Witness ==
    /\ last = StmtEval(AstApp(IdNat, AstUniverse))
    /\ IsErr(res)
    /\ steps = <<"ast_transform", "type_check">>

\* C6 as stated: Check(t) yields the inferred type of t, which differs from
\* what Eval(t) yields when the type and the value of t differ.
C6_CheckYieldsType ==
    (last[1] = "Check" /\ IsOk(res)) =>
        /\ res = type_check(0, Lowered(last)[2], prev)
        /\ (type_check(0, Lowered(last)[2], prev) # ValueIn(last, prev)
              => res # handle_statement(StmtEval(last[2]), prev).res)

IdNatZero == AstApp(AstApp(AstVar("id"), AstNat), AstNum(0))

\* The state of scenario S4: only id was declared, then id Nat Zero was
\* evaluated.
AfterS4 ==
    /\ log # <<>>
    /\ Len(log) = 1
    /\ log[1][1] = "Declare"
    /\ log[1][2] = "id"
    /\ last = StmtEval(IdNatZero)

\* C7 as stated: in scenario S4 the second statement evaluates to VZero.
C7_Original ==
    AfterS4 =>
        /\ env.types[1][1] = Global("id")
        /\ env.types[1][2][1] = "VPi"
        /\ env.types[1][2][2] = VUniverse
        /\ res = Ok(VZero)

\* C7: in scenario S4, after Declare(id, forall A : U . A -> A) Gamma holds
\* Global(id) |-> VPi(VUniverse, ...), and Eval(id Nat Zero) succeeds with
\* the neutral value id Nat Zero, id being declared and not defined.
C7_DeclaredIdStaysNeutral ==
    AfterS4 =>
        /\ env.types[1][1] = Global("id")
        /\ env.types[1][2][1] = "VPi"
        /\ env.types[1][2][2] = VUniverse
        /\ res = Ok(VNeutral(NApp(NApp(NVar(Global("id")), VNat), VZero)))

C7_Witness == AfterS4 /\ IsOk(res)

\* C8 as stated: a Declare succeeds only when the inferred type of its term
\* is VUniverse; Declare(b, a) with a : A, A : U fails with TypeMismatch and
\* leaves Gamma without an entry for b.
C8_DeclareNeedsAType ==
    /\ (last[1] = "Declare" /\ IsOk(res)) =>
          lift(0, type_check(0, Lowered(last)[2], prev)[2]) = InfereableTerm(TermUniverse)
    /\ ( /\ last = StmtDeclare("b", AstVar("a"))
         /\ TypeOf("a") = Ok(VNeutral(NVar(Global("A"))))
         /\ TypeOf("A") = Ok(VUniverse) ) =>
          /\ IsErr(res)
          /\ res[2] = "TypeMismatch"
          /\ find(env.types, Global("b")) = <<"None">>

\* The bindings of a name, newest first.
BindingsOf(n) == SelectSeq(log, LAMBDA b : b[2] = n)

\* C9: infer of Free(name) is the type of the newest typing entry of the
\* name, and UnboundVariable when there is none; Eval(foo) in the empty
\* environment fails with UnboundVariable in the checker, before any
\* evaluation.
C9_FreeVariableLookup ==
    /\ \A n \in Names :
         TypeOf(n) = IF BindingsOf(n) = <<>>
                     THEN Err("UnboundVariable", <<"name", Global(n)>>)
                     ELSE Ok(BindingsOf(n)[1][4])
    /\ (last = StmtEval(AstVar("foo")) /\ prev = EmptyTypeCtx) =>
          /\ res = Err("UnboundVariable", <<"name", Global("foo")>>)
          /\ steps = <<"ast_transform", "type_check">>

\* foo was evaluated in the empty environment; x has two typing entries.
C9_Witness ==
    /\ last = StmtEval(AstVar("foo"))
    /\ IsErr(res)
    /\ Len(BindingsOf("x")) >= 2
    /\ BindingsOf("x")[1][4] # BindingsOf("x")[2][4]

\* The applications among the terms the driver is given.
AppTerms == {ast_transform(e, <<>>)[2] : e \in {a \in EvalTerms : a[1] = "AstApp"}}

S5Error ==
    Err("TypeMismatch", <<"expected", InfereableTerm(TermNat),
                          "found", InfereableTerm(TermUniverse)>>)

\* infer(App(f, x)) succeeds only with a VPi for f and a checked argument,
\* and is then the codomain applied to the value of x.
AppSuccess(t) ==
    LET r == type_check(0, t, env)
        tf == type_check(0, t[2], env)
    IN IsOk(r) =>
          /\ IsOk(tf)
          /\ tf[2][1] = "VPi"
          /\ IsOk(sanity_check(0, t[3], env, tf[2][2]))
          /\ r = call(tf[2][3], eval_checked(t[3], Into(env))[2])

\* C10 as stated: when infer(f) is not a VPi or x does not check against
\* the domain, the result is TypeMismatch.
C10_Original ==
    /\ \A t \in AppTerms :
         LET r == type_check(0, t, env)
             tf == type_check(0, t[2], env)
         IN /\ AppSuccess(t)
            /\ (IsOk(tf) /\ tf[2][1] # "VPi") => (IsErr(r) /\ r[2] = "TypeMismatch")
            /\ (IsOk(tf) /\ tf[2][1] = "VPi" /\ ~IsOk(sanity_check(0, t[3], env, tf[2][2])))
                  => (IsErr(r) /\ r[2] = "TypeMismatch")
    /\ last = StmtEval(AstApp(IdNat, AstUniverse)) => res = S5Error

\* C10: infer(App(f, x)) succeeds only if infer(f) is a VPi(dom, cod) and
\* check(x, dom) succeeds, and is then cod applied to eval(x); if infer(f)
\* is not a VPi the result is TypeMismatch, and if x does not check against
\* dom the result is the error of that check: TypeMismatch when the types
\* differ (S5: expected Nat, found Universe), UnboundVariable when x
\* mentions a name without a typing entry.
C10_ApplicationRule ==
    /\ \A t \in AppTerms :
         LET r == type_check(0, t, env)
             tf == type_check(0, t[2], env)
             chk == sanity_check(0, t[3], env, tf[2][2])
         IN /\ AppSuccess(t)
            /\ (IsOk(tf) /\ tf[2][1] # "VPi") => (IsErr(r) /\ r[2] = "TypeMismatch")
            /\ (IsOk(tf) /\ tf[2][1] = "VPi" /\ ~IsOk(chk)) =>
                  /\ r = chk
                  /\ r[2] \in {"TypeMismatch", "UnboundVariable"}
                  /\ r[2] = "UnboundVariable" <=> ~IsOk(type_check(0, t[3][2], env))
    /\ last = StmtEval(AstApp(IdNat, AstUniverse)) => res = S5Error
    /\ last = StmtEval(AstApp(IdNat, AstVar("foo"))) =>
          res = Err("UnboundVariable", <<"name", Global("foo")>>)

\* Scenario S5 was run.
C10_Witness ==
    /\ last = StmtEval(AstApp(IdNat, AstUniverse))
    /\ res = S5Error

\* The kinds of EvalError.
ErrorKinds == {"ParseError", "UnboundVariable", "TypeMismatch", "FileNotFound"}

\* C13: whatever goes wrong while a statement is handled comes back to the
\* driver as an error of one of the four kinds; no statement makes the
\* core panic.
C13_FailuresAreReturned ==
    last # NoStmt => IsOk(res) \/ (IsErr(res) /\ res[2] \in ErrorKinds)

\* C28: after any sequence of statements from the empty environment every
\* name with an entry in Delta has an entry in Gamma; a statement adds at
\* most one entry to each of them and removes or alters none; Delta gains
\* an entry only through a successful Let.
C28_DefinedNamesAreTyped ==
    /\ \A i \in DOMAIN env.vals :
          \E j \in DOMAIN env.types : env.types[j][1] = env.vals[i][1]
    /\ Len(env.types) <= Len(prev.types) + 1
    /\ Len(env.vals) <= Len(prev.vals) + 1
    /\ SubSeq(env.types, Len(env.types) - Len(prev.types) + 1, Len(env.types)) = prev.types
    /\ SubSeq(env.vals, Len(env.vals) - Len(prev.vals) + 1, Len(env.vals)) = prev.vals
    /\ env.vals # prev.vals =>
          /\ last[1] = "Let"
          /\ IsOk(res)
          /\ Head(env.vals) = <<Global(last[2]), res[2]>>
          /\ Head(env.types)[1] = Global(last[2])

\* A Let has just added a definition to a Delta that held one already,
\* next to a name that is declared only.
C28_Witness ==
    /\ last[1] = "Let"
    /\ IsOk(res)
    /\ Len(env.vals) = 2
    /\ Len(env.types) = 3
    /\ Len(prev.vals) = 1

\* C29: the bounded-index stack the driver hands to the evaluator for a
\* top-level term is empty whatever Gamma holds, so an index with no
\* binder around it is not resolved to a value in any environment a
\* sequence of statements leads to.
C29_TopLevelStackIsEmpty ==
    /\ Into(env).stack = Nil
    /\ \A i \in 0..MaxCtx : ~IsOk(eval(Bounded(i), Into(env)))

\* ---------------------------------------------------------------------
\* The functions of the core on their own: the terms they are given
\* ---------------------------------------------------------------------
\* The largest numeral among the terms.
MaxNum == 2

RECURSIVE CheckableNum(_)
CheckableNum(n) == IF n = 0 THEN CheckableZero ELSE CheckableSucc(CheckableNum(n - 1))

Inf(t) == InfereableTerm(t)

Pi(a, b) == DependentFunctionSpace(Inf(a), Inf(b))

CoreAtoms == {TermUniverse, TermNat, TermZero, Var(Global("A")), Bounded(0)}

\* The types terms are annotated with.
CoreTypes ==
    {TermUniverse, TermNat, TermZero}
        \cup {Pi(a, b) : a \in {TermUniverse, TermNat}, b \in {TermUniverse, TermNat, Bounded(0)}}
        \cup { Pi(TermNat, Pi(TermNat, TermNat)), Pi(TermUniverse, Pi(Bounded(0), Bounded(0))),
               Pi(TermUniverse, Pi(Bounded(0), Bounded(1))) }

CoreCheckables ==
    {Inf(t) : t \in CoreAtoms}
        \cup {CheckableNum(n) : n \in 0..MaxNum}
        \cup {Inf(num_to_succ(n)) : n \in 1..MaxNum}
        \cup { Lambda(Inf(Bounded(0))), Lambda(CheckableZero), Lambda(Inf(TermNat)),
               Lambda(Inf(TermSucc(Bounded(0)))),
               Lambda(Lambda(Inf(Bounded(0)))), Lambda(Lambda(Inf(Bounded(1)))) }

CoreAnnotated == {AnnotatedTerm(c, Inf(ty)) : c \in CoreCheckables, ty \in CoreTypes}

CoreArgs == {CheckableZero, Inf(TermZero), Inf(TermNat), Inf(TermUniverse), Inf(num_to_succ(1))}

CoreApps == {App(f, a) : f \in CoreAnnotated, a \in CoreArgs}

\* Applications of a function of two arguments.
CoreApps2 ==
    {App(App(AnnotatedTerm(c, Inf(ty)), a), b) :
        c \in {Lambda(Lambda(Inf(Bounded(0)))), Lambda(Lambda(Inf(Bounded(1))))},
        ty \in { Pi(TermNat, Pi(TermNat, TermNat)), Pi(TermUniverse, Pi(Bounded(0), Bounded(0))),
                 Pi(TermUniverse, Pi(Bounded(0), Bounded(1))) },
        a \in CoreArgs, b \in CoreArgs}

CoreTerms ==
    CoreAtoms \cup CoreTypes \cup {num_to_succ(n) : n \in 0..MaxNum}
        \cup CoreAnnotated \cup CoreApps \cup CoreApps2

\* ---------------------------------------------------------------------
\* Calls on the core alone.  Each step calls functions of the core on one
\* term in the empty contexts and records the call and what it returned.
\* ---------------------------------------------------------------------
\* lift(0, eval(t, EvalCtx::new())) of an inferable term
normal_form(t) ==
    LET v == eval(t, EmptyEvalCtx)
    IN IF ~IsOk(v) THEN v
       ELSE IF Panicked(lift(0, v[2])) THEN Panic(<<"closure call failed">>)
       ELSE Ok(lift(0, v[2]))

\* lift(0, eval_checked(c, EvalCtx::new())) of a checkable term
normal_form_checked(c) ==
    LET v == eval_checked(c, EmptyEvalCtx)
    IN IF ~IsOk(v) THEN v
       ELSE IF Panicked(lift(0, v[2])) THEN Panic(<<"closure call failed">>)
       ELSE Ok(lift(0, v[2]))

NotInferable == <<"NotInferable">>

\* type_check of the normal form, when it is an inferable term
type_of_normal_form(nf) ==
    IF ~IsOk(nf) THEN nf
    ELSE IF nf[2][1] = "InfereableTerm" THEN type_check(0, nf[2][2], EmptyTypeCtx)
    ELSE NotInferable

\* The inferred type of the term, its normal form, the normal form of the
\* normal form, and the inferred type of the normal form.
Normalised(t) ==
    << type_check(0, t, EmptyTypeCtx),
       normal_form(t),
       IF IsOk(normal_form(t)) THEN normal_form_checked(normal_form(t)[2]) ELSE normal_form(t),
       type_of_normal_form(normal_form(t)) >>

Probed(fn, arg, out) ==
    /\ probe' = <<fn, arg, out>>
    /\ UNCHANGED <<env, prev, last, res, steps, log, repl, stlc>>

Normalise == \E t \in CoreTerms : \E o \in {Normalised(t)} : Probed("normalise", t, o)

\* The binders an arrow type is lowered under, outermost first.
SymbolLists == {<<>>, <<"x">>, <<"x", "y">>}

ArrowDomains == {AstNat, AstUniverse, AstVar("x")}

ArrowCodomains ==
    { AstNat, AstVar("x"), AstVar("y"), AstVar("g"), AstApp(AstVar("g"), AstVar("x")),
      AstDependentFunctionSpace(AstVar("x"), AstVar("y")),
      AstAnnotatedTerm(AstLambda("z", AstVar("x")), NatToNat) }

\* ast_transform of `a -> b` under the binders, and of b by itself under
\* the same binders.
LowerArrow ==
    \E symbols \in SymbolLists, a \in ArrowDomains, b \in ArrowCodomains :
        Probed("lower_arrow", <<symbols, a, b>>,
               << ast_transform(AstDependentFunctionSpace(a, b), symbols),
                  ast_transform_checkable(a, symbols),
                  ast_transform_checkable(b, symbols) >>)

\* The context the driver has after `def ident :: ty`.
Declared(ctx, ident, ty) == handle_statement(StmtDeclare(ident, ty), ctx).ctx

\* The context after def A :: U; def B :: U; def a :: A.
DeclaredCtx ==
    Declared(Declared(Declared(EmptyTypeCtx, "A", AstUniverse), "B", AstUniverse),
             "a", AstVar("A"))

CheckCtxs == {EmptyTypeCtx, DeclaredCtx}

\* The value of a closed type.
TypeValue(t) == eval(t, EmptyEvalCtx)[2]

\* The types terms are checked against.
ExpectedTypes ==
    { VNat, VUniverse, VZero, TypeValue(Pi(TermNat, TermNat)),
      VNeutral(NVar(Global("A"))), VNeutral(NVar(Global("B"))) }

\* The terms that are checked.
CheckedTerms ==
    {Inf(t) : t \in {TermUniverse, TermNat, TermZero, Var(Global("A")), Var(Global("a")),
                     Var(Global("foo")), Pi(TermNat, TermNat)}}
        \cup {CheckableNum(n) : n \in 0..MaxNum}
        \cup {Inf(num_to_succ(n)) : n \in 1..MaxNum}
        \cup { CheckableSucc(Inf(TermNat)), CheckableSucc(CheckableSucc(Inf(TermNat))),
               CheckableSucc(Inf(TermZero)), CheckableSucc(Inf(Var(Global("a")))),
               CheckableSucc(Lambda(Inf(Bounded(0)))),
               Lambda(Inf(Bounded(0))), Lambda(CheckableZero) }

\* sanity_check(0, c, ctx, ty), with type_check(0, t, ctx) when c is Inf(t).
Check ==
    \E ctx \in CheckCtxs, c \in CheckedTerms, ty \in ExpectedTypes :
        Probed("check", <<ctx, c, ty>>,
               << sanity_check(0, c, ctx, ty),
                  IF c[1] = "InfereableTerm" THEN type_check(0, c[2], ctx)
                  ELSE NotInferable >>)

MaxIndex == 2

\* type_check applied directly to a de Bruijn index that no binder opening
\* has replaced, at every depth and in both contexts.
Infer ==
    \E ctx \in CheckCtxs, i \in 0..MaxIndex, de_brujin_index \in 0..MaxIndex :
        Probed("infer", <<ctx, Bounded(i), de_brujin_index>>,
               type_check(de_brujin_index, Bounded(i), ctx))

\* The context the driver has after `let ident = def`.
Defined(ctx, ident, def) == handle_statement(StmtLet(ident, def), ctx).ctx

\* The context after let T = Nat.
DefinedCtx == Defined(EmptyTypeCtx, "T", AstNat)

AnnotCtxs == {EmptyTypeCtx, DeclaredCtx, DefinedCtx}

\* Zero applied to Zero: ill-typed, and stuck when evaluated.
ZeroZero == App(AnnotatedTerm(CheckableZero, Inf(TermNat)), CheckableZero)

\* The annotations: types, terms that are not types, and terms whose
\* check and whose evaluation fail in different ways.
AnnotTypes ==
    {Inf(t) : t \in {TermNat, TermUniverse, TermZero, Pi(TermNat, TermNat),
                     Var(Global("T")), Var(Global("A")), Var(Global("foo")),
                     Bounded(0), ZeroZero}}
        \cup {Lambda(Inf(Bounded(0))), CheckableZero}

AnnotTerms ==
    {Inf(t) : t \in {TermZero, TermNat, TermUniverse, Var(Global("a")), Var(Global("T")),
                     Var(Global("foo")), Bounded(0)}}
        \cup {CheckableZero, CheckableNum(1), Lambda(Inf(Bounded(0)))}

NotChecked == <<"NotChecked">>

\* type_check of an annotated term, with the three calls its arm makes.
Annotated(t, ty, ctx) ==
    << type_check(0, AnnotatedTerm(t, ty), ctx),
       sanity_check(0, ty, ctx, VUniverse),
       eval_checked(ty, EvalCtx(ctx.vals, Nil)),
       IF IsOk(eval_checked(ty, EvalCtx(ctx.vals, Nil)))
       THEN sanity_check(0, t, ctx, eval_checked(ty, EvalCtx(ctx.vals, Nil))[2])
       ELSE NotChecked >>

Annotate ==
    \E ctx \in AnnotCtxs, t \in AnnotTerms, ty \in AnnotTypes :
        \E o \in {Annotated(t, ty, ctx)} : Probed("annotate", <<ctx, t, ty>>, o)

\* The bodies substituted into: indices bound inside the body, the index
\* of the binder being opened, indices of binders further out, and free
\* names.
SubstBodies ==
    {Inf(t) : t \in { Bounded(0), Bounded(1), Bounded(2), TermUniverse,
                      Var(Global("A")), Var(Local(0)),
                      Pi(Bounded(0), Bounded(0)), Pi(Bounded(0), Bounded(1)),
                      Pi(TermNat, Pi(Bounded(1), Bounded(2))),
                      App(Var(Global("A")), Inf(Bounded(0))),
                      App(Bounded(0), Lambda(Inf(Bounded(1)))),
                      AnnotatedTerm(Inf(Bounded(0)), Inf(Bounded(1))),
                      TermSucc(Bounded(0)) }}
        \cup { Lambda(Inf(Bounded(0))), Lambda(Inf(Bounded(1))),
               Lambda(Lambda(Inf(Bounded(2)))), Lambda(Inf(Pi(Bounded(1), Bounded(2)))),
               CheckableSucc(Inf(Bounded(0))), CheckableZero }

\* The fresh locals substituted: none of them occurs in a body.
FreshLocals == {Local(1), Local(2)}

Subst ==
    \E i \in 0..MaxIndex, y \in FreshLocals, t \in SubstBodies :
        Probed("subst", <<i, y, t>>, subst_checked(i, Var(y), t))

\* Terms in normal form without numerals: functions of one and two
\* arguments, function types, and applications stuck on a name.
ReadbackNormal ==
    { Lambda(Inf(Bounded(0))), Lambda(Lambda(Inf(Bounded(0)))), Lambda(Lambda(Inf(Bounded(1)))),
      Lambda(Lambda(Lambda(Inf(Bounded(2))))),
      Lambda(Lambda(Inf(App(Bounded(1), Inf(Bounded(0)))))),
      Lambda(Inf(TermNat)), Lambda(CheckableZero),
      Inf(Pi(TermUniverse, Pi(Bounded(0), Bounded(1)))),
      Lambda(Inf(Pi(Bounded(0), Bounded(1)))),
      Inf(Var(Global("A"))), Inf(Var(Local(0))),
      Lambda(Inf(Var(Local(0)))),
      Lambda(Inf(App(Var(Global("A")), Inf(Bounded(0))))),
      Lambda(Inf(App(App(Var(Local(1)), Inf(Bounded(0))), Lambda(Inf(Bounded(1)))))) }

\* Redexes whose value is a function or a stuck application.
ReadbackRedexes ==
    {Inf(App(AnnotatedTerm(f, Inf(Pi(TermNat, Pi(TermNat, TermNat)))), a)) :
        f \in {Lambda(Lambda(Inf(Bounded(0)))), Lambda(Lambda(Inf(Bounded(1))))},
        a \in {Inf(Var(Global("A"))), Inf(Var(Local(0))), CheckableZero}}

ReadbackTerms == ReadbackNormal \cup ReadbackRedexes

\* lift(0, v) of the value v of a term in the empty contexts
Readback == \E c \in ReadbackTerms : Probed("readback", c, normal_form_checked(c))

\* The calls of type_check and sanity_check that one call of either makes
\* itself, as far as its early returns let it get.
SubCalls(c) ==
    CASE c[1] = "type_check" /\ c[3][1] = "AnnotatedTerm" ->
            IF IsOk(sanity_check(c[2], c[3][3], c[4], VUniverse))
               /\ IsOk(eval_checked(c[3][3], EvalCtx(c[4].vals, Nil)))
            THEN { <<"sanity_check", c[2], c[3][3], c[4], VUniverse>>,
                   <<"sanity_check", c[2], c[3][2], c[4],
                     eval_checked(c[3][3], EvalCtx(c[4].vals, Nil))[2]>> }
            ELSE { <<"sanity_check", c[2], c[3][3], c[4], VUniverse>> }
      [] c[1] = "type_check" /\ c[3][1] = "DependentFunctionSpace" ->
            IF IsOk(sanity_check(c[2], c[3][2], c[4], VUniverse))
               /\ IsOk(eval_checked(c[3][2], EvalCtx(c[4].vals, Nil)))
            THEN LET o == open_codomain(c[2], c[3], c[4],
                                        eval_checked(c[3][2], EvalCtx(c[4].vals, Nil))[2])
                 IN IF Panicked(o[2])
                    THEN { <<"sanity_check", c[2], c[3][2], c[4], VUniverse>> }
                    ELSE { <<"sanity_check", c[2], c[3][2], c[4], VUniverse>>,
                           <<"sanity_check", o[1], o[2], o[3], VUniverse>> }
            ELSE { <<"sanity_check", c[2], c[3][2], c[4], VUniverse>> }
      [] c[1] = "type_check" /\ c[3][1] = "App" ->
            IF IsOk(type_check(c[2], c[3][2], c[4]))
            THEN (IF type_check(c[2], c[3][2], c[4])[2][1] = "VPi"
                  THEN { <<"type_check", c[2], c[3][2], c[4]>>,
                         <<"sanity_check", c[2], c[3][3], c[4],
                           type_check(c[2], c[3][2], c[4])[2][2]>> }
                  ELSE { <<"type_check", c[2], c[3][2], c[4]>> })
            ELSE { <<"type_check", c[2], c[3][2], c[4]>> }
      [] c[1] = "type_check" /\ c[3][1] = "Succ" -> { <<"type_check", c[2], c[3][2], c[4]>> }
      [] c[1] = "sanity_check" /\ c[3][1] = "InfereableTerm" ->
            { <<"type_check", c[2], c[3][2], c[4]>> }
      [] c[1] = "sanity_check" /\ c[3][1] = "Lambda" /\ c[5][1] = "VPi" ->
            LET o == open_body(c[2], c[3], c[4], c[5])
            IN  IF ~Panicked(o[2]) /\ IsOk(o[4])
                THEN { <<"sanity_check", o[1], o[2], o[3], o[4][2]>> }
                ELSE {}
      [] OTHER -> {}

\* Every call of the checker reached from the call c, c included.
RECURSIVE Reached(_)
Reached(c) == {c} \cup UNION {Reached(s) : s \in SubCalls(c)}

\* Terms with binders inside binders, checked from the top level.
NestedTerms ==
    { AnnotatedTerm(Lambda(Lambda(Inf(Bounded(1)))), Inf(Pi(TermNat, Pi(TermNat, TermNat)))),
      AnnotatedTerm(Lambda(Lambda(Inf(Bounded(0)))),
                    Inf(Pi(TermUniverse, Pi(Bounded(0), Bounded(1))))),
      AnnotatedTerm(Lambda(Lambda(Lambda(Inf(Bounded(2))))),
                    Inf(Pi(TermNat, Pi(TermNat, Pi(TermNat, TermNat))))),
      AnnotatedTerm(Lambda(Inf(AnnotatedTerm(Lambda(Inf(Bounded(1))), Inf(Pi(TermNat, TermNat))))),
                    Inf(Pi(TermNat, Pi(TermNat, TermNat)))),
      AnnotatedTerm(Lambda(Inf(Var(Global("foo")))), Inf(Pi(TermNat, TermNat))),
      AnnotatedTerm(Lambda(Inf(Var(Global("a")))), Inf(Pi(TermNat, Var(Global("A"))))),
      Pi(TermUniverse, Pi(Bounded(0), Bounded(1))),
      Pi(TermNat, Pi(TermNat, Pi(TermNat, TermNat))),
      Pi(Pi(TermNat, TermNat), Pi(TermNat, TermNat)),
      Pi(TermNat, TermZero),
      App(AnnotatedTerm(Lambda(Lambda(Inf(Bounded(0)))),
                        Inf(Pi(TermUniverse, Pi(Bounded(0), Bounded(1))))), Inf(TermNat)),
      App(AnnotatedTerm(Lambda(Inf(Bounded(0))), Inf(Pi(TermNat, TermNat))),
          Lambda(Inf(Bounded(0)))),
      TermSucc(AnnotatedTerm(Inf(TermZero), Inf(TermNat))),
      Var(Global("a")) }

\* type_check from the top level, with every call of the checker it reaches
TopLevel ==
    \E ctx \in CheckCtxs, t \in NestedTerms :
        Probed("type_check", <<ctx, t>>,
               <<type_check(0, t, ctx), Reached(<<"type_check", 0, t, ctx>>)>>)

\* The most values pushed on a stack.
MaxStack == 2

StackValues == {VZero, VNat, VUniverse}

\* The sequences of values pushed, oldest first.
Pushes == UNION {[1..n -> StackValues] : n \in 0..MaxStack}

\* The stack after pushing the values one after the other on Ctx::Nil.
RECURSIVE PushAll(_)
PushAll(pushed) ==
    IF pushed = <<>> THEN Nil
    ELSE push(PushAll(SubSeq(pushed, 1, Len(pushed) - 1)), pushed[Len(pushed)])

\* ctx[idx] and eval of Bounded(idx) on a stack
IndexStack ==
    \E pushed \in Pushes, idx \in 0..(MaxStack + 1) :
        Probed("index", <<pushed, idx>>,
               << ctx_index(PushAll(pushed), idx),
                  eval(Bounded(idx), EvalCtx(Nil, PushAll(pushed))) >>)

\* The most Lambda binders around an identifier.
MaxBinders == 3

BinderNames == {"x", "y"}

\* \n1 -> ... \nk -> body
RECURSIVE Lambdas(_, _)
Lambdas(names, body) ==
    IF names = <<>> THEN body ELSE AstLambda(Head(names), Lambdas(Tail(names), body))

\* An identifier under one to MaxBinders Lambda binders: one of their
\* names, or a name none of them binds.
LambdaChains ==
    UNION { {Lambdas(names, AstVar(u)) : u \in {names[i] : i \in DOMAIN names} \cup {"A"}} :
            names \in UNION {[1..n -> BinderNames] : n \in 1..MaxBinders} }

\* Identifiers under the binders of forall, in applications, annotations
\* and arrows.
BinderAsts ==
    { AstForall(<<AstAnnotatedTerm(AstVar("x"), AstUniverse)>>, AstVar("x")),
      AstForall(<<AstAnnotatedTerm(AstVar("x"), AstUniverse),
                  AstAnnotatedTerm(AstVar("y"), AstVar("x"))>>, AstVar("x")),
      AstForall(<<AstAnnotatedTerm(AstVar("x"), AstUniverse),
                  AstAnnotatedTerm(AstVar("x"), AstVar("x"))>>, AstVar("x")),
      AstForall(<<AstAnnotatedTerm(AstVar("x"), AstUniverse)>>,
                AstDependentFunctionSpace(AstVar("x"), AstVar("A"))),
      AstAnnotatedTerm(AstLambda("x", AstLambda("y", AstApp(AstVar("x"), AstVar("y")))),
                       AstForall(<<AstAnnotatedTerm(AstVar("y"), AstUniverse)>>, AstVar("y"))),
      AstLambda("x", AstApp(AstVar("foo"), AstLambda("y", AstVar("x")))),
      AstLambda("x", AstApp(AstVar("x"), AstLambda("x", AstVar("x")))),
      AstVar("A"), AstVar("foo") }

LoweredAsts == LambdaChains \cup BinderAsts

\* Another choice of the bound names: a one-to-one renaming.
Renamings ==
    { [x |-> "x", y |-> "y"], [x |-> "y", y |-> "x"],
      [x |-> "p", y |-> "q"], [x |-> "y", y |-> "p"] }

\* The AST with its bound names, binders and uses, chosen by the renaming;
\* an identifier that no binder around it binds is left alone.
RECURSIVE Renamed(_, _, _)
RECURSIVE RenamedBindings(_, _, _, _)

Renamed(ast, r, bound) ==
    CASE ast[1] = "AstVar" -> IF ast[2] \in bound THEN AstVar(r[ast[2]]) ELSE ast
      [] ast[1] = "AstLambda" ->
            AstLambda(r[ast[2]], Renamed(ast[3], r, bound \cup {ast[2]}))
      [] ast[1] \in {"AstAnnotatedTerm", "AstApp", "AstDependentFunctionSpace"} ->
            <<ast[1], Renamed(ast[2], r, bound), Renamed(ast[3], r, bound)>>
      [] ast[1] = "AstSucc" -> AstSucc(Renamed(ast[2], r, bound))
      [] ast[1] = "AstForall" -> RenamedBindings(ast[2], ast[3], r, bound)
      [] OTHER -> ast

RenamedBindings(bindings, ret, r, bound) ==
    IF bindings = <<>> THEN AstForall(<<>>, Renamed(ret, r, bound))
    ELSE LET rest == RenamedBindings(Tail(bindings), ret, r,
                                     bound \cup {Head(bindings)[2][2]})
         IN AstForall(<< AstAnnotatedTerm(AstVar(r[Head(bindings)[2][2]]),
                                          Renamed(Head(bindings)[3], r, bound)) >>
                         \o rest[2],
                      rest[3])

\* ast_transform_checkable of an AST and of the AST with other bound names
Lower ==
    \E ast \in LoweredAsts, r \in Renamings :
        Probed("lower", <<ast, r>>,
               << ast_transform_checkable(ast, <<>>),
                  ast_transform_checkable(Renamed(ast, r, {}), <<>>) >>)

\* Bodies of functions: the argument, a value of the captured stack, an
\* index beyond both, an application that gets stuck, a constant, and a
\* function that returns the argument of the outer one.
LambdaBodies ==
    { Inf(Bounded(0)), Inf(Bounded(1)), Inf(Bounded(MaxStack + 1)), Inf(ZeroZero),
      CheckableZero, Lambda(Inf(Bounded(1))) }

\* eval_checked of a Lambda under a stack, the value applied to an
\* argument, and the result applied once more
EvalLambda ==
    \E pushed \in Pushes, body \in LambdaBodies, arg \in StackValues :
        \E f \in {eval_checked(Lambda(body), EvalCtx(Nil, PushAll(pushed)))} :
            \E applied \in {IF IsOk(f) THEN val_app(f[2], arg) ELSE f} :
                Probed("lambda", <<pushed, body, arg>>,
                       << f, applied,
                          IF IsOk(applied) THEN val_app(applied[2], VUniverse) ELSE applied >>)

CoreNext ==
    \/ Normalise \/ LowerArrow \/ Check \/ Infer \/ Annotate \/ Subst \/ Readback
    \/ TopLevel \/ IndexStack \/ Lower \/ EvalLambda

SpecCore == Init /\ [][CoreNext]_vars

\* ---------------------------------------------------------------------
\* Properties of the core functions
\* ---------------------------------------------------------------------
ProbeTerm == probe[2]

InferredTy == probe[3][1]

NormalForm == probe[3][2]

NormalFormAgain == probe[3][3]

NormalFormTy == probe[3][4]

\* (\x -> \y -> x) :: Nat -> Nat -> Nat
ConstNat ==
    AnnotatedTerm(Lambda(Lambda(Inf(Bounded(1)))), Inf(Pi(TermNat, Pi(TermNat, TermNat))))

\* C11: for every closed term the checker accepts in the empty contexts,
\* the readback at depth 0 of its value, evaluated in the empty environment
\* and read back at depth 0 again, is the same term as the first readback
\* (an error of the evaluator is passed on unchanged).
C11_QuoteEvalRoundTrip ==
    probe[1] = "normalise" /\ IsOk(InferredTy) =>
        /\ NormalFormAgain = NormalForm
        /\ ~IsPanic(NormalForm)

\* A well-typed function of two arguments was normalised twice: a normal
\* form with two binders.
C11_Witness ==
    /\ probe[1] = "normalise"
    /\ ProbeTerm = ConstNat
    /\ IsOk(InferredTy)
    /\ NormalForm = Ok(Lambda(Lambda(Inf(Bounded(1)))))
    /\ NormalFormAgain = NormalForm

\* C12: preservation.  When type_check gives a closed term a type in the
\* empty contexts and the readback of its value is an inferable term,
\* type_check of that readback succeeds and gives a type with the same
\* readback.
C12_Preservation ==
    (/\ probe[1] = "normalise"
     /\ IsOk(InferredTy)
     /\ IsOk(NormalForm)
     /\ NormalForm[2][1] = "InfereableTerm")
        => /\ IsOk(NormalFormTy)
           /\ lift(0, NormalFormTy[2]) = lift(0, InferredTy[2])

\* TRUE when an index of the term refers to the k-th binder around it
\* (Lambda and the codomain of a DependentFunctionSpace bind one variable).
RECURSIVE RefersTo(_, _)
RefersTo(t, k) ==
    CASE t[1] = "Bounded" -> t[2] = k
      [] t[1] = "Lambda" -> RefersTo(t[2], k + 1)
      [] t[1] = "DependentFunctionSpace" -> RefersTo(t[2], k) \/ RefersTo(t[3], k + 1)
      [] t[1] \in {"AnnotatedTerm", "App"} -> RefersTo(t[2], k) \/ RefersTo(t[3], k)
      [] t[1] \in {"Succ", "InfereableTerm", "CheckableSucc"} -> RefersTo(t[2], k)
      [] OTHER -> FALSE

\* The term seen from under one more binder: the indices that refer to a
\* binder around the term (those not below c) go up by one.
RECURSIVE Shifted(_, _)
Shifted(t, c) ==
    CASE t[1] = "Bounded" -> IF t[2] >= c THEN Bounded(t[2] + 1) ELSE t
      [] t[1] = "Lambda" -> Lambda(Shifted(t[2], c + 1))
      [] t[1] = "DependentFunctionSpace" ->
            DependentFunctionSpace(Shifted(t[2], c), Shifted(t[3], c + 1))
      [] t[1] = "AnnotatedTerm" -> AnnotatedTerm(Shifted(t[2], c), Shifted(t[3], c))
      [] t[1] = "App" -> App(Shifted(t[2], c), Shifted(t[3], c))
      [] t[1] = "Succ" -> TermSucc(Shifted(t[2], c))
      [] t[1] = "InfereableTerm" -> InfereableTerm(Shifted(t[2], c))
      [] t[1] = "CheckableSucc" -> CheckableSucc(Shifted(t[2], c))
      [] OTHER -> t

\* C15: `A -> B` is lowered to Pi(A, B') where B' is B seen from inside the
\* codomain: an identifier of B bound by a binder around the arrow still
\* refers to that binder, and nothing in B' refers to the variable the Pi
\* binds.
C15_ArrowLowering ==
    probe[1] = "lower_arrow" /\ IsOk(probe[3][1]) =>
        /\ probe[3][1][2] = DependentFunctionSpace(probe[3][2][2], Shifted(probe[3][3][2], 0))
        /\ ~RefersTo(probe[3][1][2][3], 0)

CheckCtx == probe[2][1]

CheckTerm == probe[2][2]

CheckExpected == probe[2][3]

CheckResult == probe[3][1]

CheckInferred == probe[3][2]

\* C17: check(Inf(t), expected) succeeds exactly when infer(t) succeeds
\* with a type whose readback at depth 0 is the readback of expected; when
\* the readbacks differ it fails with TypeMismatch (an error of infer is
\* passed on).  A term whose type is the type variable A is not accepted
\* against VUniverse or against the type variable B.
C17_CheckInferable ==
    probe[1] = "check" /\ CheckTerm[1] = "InfereableTerm" =>
        IF ~IsOk(CheckInferred) THEN CheckResult = CheckInferred
        ELSE IF lift(0, CheckInferred[2]) = lift(0, CheckExpected) THEN IsOk(CheckResult)
        ELSE IsErr(CheckResult) /\ CheckResult[2] = "TypeMismatch"

\* C18: check(Zero, expected) succeeds exactly when expected is VNat;
\* against any other expected type it fails with TypeMismatch.
C18_CheckZero ==
    probe[1] = "check" /\ CheckTerm = CheckableZero =>
        IF CheckExpected = VNat THEN IsOk(CheckResult)
        ELSE IsErr(CheckResult) /\ CheckResult[2] = "TypeMismatch"

\* C19: check(Succ(t), expected) succeeds exactly when expected is VNat
\* and check(t, VNat) succeeds in the same context; so every numeral
\* Succ^n(Zero) checks against VNat.
C19_CheckSucc ==
    probe[1] = "check" /\ CheckTerm[1] = "CheckableSucc" =>
        /\ IsOk(CheckResult) <=>
              /\ CheckExpected = VNat
              /\ IsOk(sanity_check(0, CheckTerm[2], CheckCtx, VNat))
        /\ (\E n \in 1..MaxNum : CheckTerm = CheckableNum(n)) /\ CheckExpected = VNat
              => IsOk(CheckResult)

\* C20: infer of a term Bounded(i) that no enclosing binder opening has
\* replaced returns the error value UnboundVariable, for every i, depth
\* and context.
C20_BoundedIsUnbound ==
    probe[1] = "infer" /\ probe[2][2][1] = "Bounded" =>
        IsErr(probe[3]) /\ probe[3][2] = "UnboundVariable"

AnnotResult == probe[3][1]

AnnotIsType == probe[3][2]

AnnotValue == probe[3][3]

AnnotChecked == probe[3][4]

\* C21: infer(Annotated(t, ty)) first checks ty against VUniverse, only
\* then evaluates ty to v in the current value context, then checks t
\* against v, and returns v: the first of the three calls that fails gives
\* the result (so a failed check of ty hides what evaluating ty would have
\* done), and it succeeds exactly when all three succeed.
C21_AnnotationRule ==
    probe[1] = "annotate" =>
        /\ ~IsOk(AnnotIsType) => AnnotResult = AnnotIsType
        /\ IsOk(AnnotIsType) /\ ~IsOk(AnnotValue) => AnnotResult = AnnotValue
        /\ IsOk(AnnotIsType) /\ IsOk(AnnotValue) /\ ~IsOk(AnnotChecked)
              => AnnotResult = AnnotChecked
        /\ IsOk(AnnotIsType) /\ IsOk(AnnotValue) /\ IsOk(AnnotChecked)
              => AnnotResult = Ok(AnnotValue[2])
        /\ IsOk(AnnotResult) <=>
              IsOk(AnnotIsType) /\ IsOk(AnnotValue) /\ IsOk(AnnotChecked)
        /\ (probe[2][1] = DefinedCtx /\ probe[2][3] = Inf(Var(Global("T")))
              /\ probe[2][2] = CheckableNum(1)) => AnnotResult = Ok(VNat)

\* The annotation fails the check against VUniverse and its evaluation
\* would have failed in another way: the result is the failure of the check.
C21_Witness ==
    /\ probe[1] = "annotate"
    /\ probe[2][3] = Inf(ZeroZero)
    /\ IsErr(AnnotIsType)
    /\ IsErr(AnnotValue)
    /\ AnnotValue # AnnotIsType
    /\ AnnotResult = AnnotIsType

\* The term with the free name y bound again as the variable k binders
\* out: the inverse of opening a binder with a fresh name.
RECURSIVE Closed(_, _, _)
Closed(t, y, k) ==
    CASE t[1] = "Var" -> IF t[2] = y THEN Bounded(k) ELSE t
      [] t[1] = "Lambda" -> Lambda(Closed(t[2], y, k + 1))
      [] t[1] = "DependentFunctionSpace" ->
            DependentFunctionSpace(Closed(t[2], y, k), Closed(t[3], y, k + 1))
      [] t[1] = "AnnotatedTerm" -> AnnotatedTerm(Closed(t[2], y, k), Closed(t[3], y, k))
      [] t[1] = "App" -> App(Closed(t[2], y, k), Closed(t[3], y, k))
      [] t[1] = "Succ" -> TermSucc(Closed(t[2], y, k))
      [] t[1] = "InfereableTerm" -> InfereableTerm(Closed(t[2], y, k))
      [] t[1] = "CheckableSucc" -> CheckableSucc(Closed(t[2], y, k))
      [] OTHER -> t

\* TRUE when the free name y occurs in the term.
RECURSIVE Mentions(_, _)
Mentions(t, y) ==
    CASE t[1] = "Var" -> t[2] = y
      [] t[1] \in {"AnnotatedTerm", "App", "DependentFunctionSpace"} ->
            Mentions(t[2], y) \/ Mentions(t[3], y)
      [] t[1] \in {"Succ", "InfereableTerm", "Lambda", "CheckableSucc"} -> Mentions(t[2], y)
      [] OTHER -> FALSE

\* C22: subst(i, s, t) replaces exactly the occurrences of the variable
\* bound i binders out, going one index up under each Pi codomain and each
\* Lambda body: no index of the result refers to that variable any more
\* (for i = 0 and the codomain of a Pi: the Pi-bound variable), and binding
\* the fresh name again gives the term back, so every other index and
\* every free name is as it was.
C22_SubstCaptureAvoiding ==
    probe[1] = "subst" =>
        /\ ~Panicked(probe[3])
        /\ ~RefersTo(probe[3], probe[2][1])
        /\ Closed(probe[3], probe[2][2], probe[2][1]) = probe[2][3]
        /\ Mentions(probe[3], probe[2][2]) <=> RefersTo(probe[2][3], probe[2][1])

\* The variable opened is used under a Lambda next to an index that the
\* Lambda binds itself.
C22_Witness ==
    /\ probe[1] = "subst"
    /\ probe[2] = <<0, Local(1), Inf(App(Bounded(0), Lambda(Inf(Bounded(1)))))>>
    /\ probe[3] = Inf(App(Var(Local(1)), Lambda(Inf(Var(Local(1))))))

\* TRUE when a name Quote(k) occurs in the term.
RECURSIVE MentionsQuote(_)
MentionsQuote(t) ==
    CASE t[1] = "Var" -> t[2][1] = "Quote"
      [] t[1] \in {"AnnotatedTerm", "App", "DependentFunctionSpace"} ->
            MentionsQuote(t[2]) \/ MentionsQuote(t[3])
      [] t[1] \in {"Succ", "InfereableTerm", "Lambda", "CheckableSucc"} -> MentionsQuote(t[2])
      [] OTHER -> FALSE

\* TRUE when every index of the term, seen from under d binders, refers to
\* one of them.
RECURSIVE WellScoped(_, _)
WellScoped(t, d) ==
    CASE t[1] = "Bounded" -> t[2] < d
      [] t[1] = "Lambda" -> WellScoped(t[2], d + 1)
      [] t[1] = "DependentFunctionSpace" -> WellScoped(t[2], d) /\ WellScoped(t[3], d + 1)
      [] t[1] \in {"AnnotatedTerm", "App"} -> WellScoped(t[2], d) /\ WellScoped(t[3], d)
      [] t[1] \in {"Succ", "InfereableTerm", "CheckableSucc"} -> WellScoped(t[2], d)
      [] OTHER -> TRUE

\* C23: the readback at depth 0 of the value of a term without free indices
\* contains no name Quote(k); the variable of the binder probed at depth k
\* is emitted at depth d as Bounded(d - k - 1), which is not negative, so
\* a term in normal form reads back as itself (the value of
\* \x. \y. x as Lambda(Lambda(Bounded(1)))); Global and Local names are
\* emitted unchanged.
C23_ReadbackIndices ==
    probe[1] = "readback" =>
        /\ IsOk(probe[3])
        /\ ~MentionsQuote(probe[3][2])
        /\ WellScoped(probe[3][2], 0)
        /\ probe[2] \in ReadbackNormal => probe[3][2] = probe[2]
        /\ \A a \in {Inf(Var(Global("A"))), Inf(Var(Local(0)))} :
              probe[2] = Inf(App(AnnotatedTerm(Lambda(Lambda(Inf(Bounded(1)))),
                                               Inf(Pi(TermNat, Pi(TermNat, TermNat)))), a))
                  => probe[3][2] = Lambda(a)

\* A variable bound two binders out, used under a third binder.
C23_Witness ==
    /\ probe[1] = "readback"
    /\ probe[2] = Lambda(Lambda(Lambda(Inf(Bounded(2)))))
    /\ probe[3] = Ok(Lambda(Lambda(Lambda(Inf(Bounded(2))))))

\* The largest local looked for in a term.
MaxLocal == 4

\* The locals that have an entry in the typing context, one per entry.
LocalEntries(ctx) == SelectSeq(ctx.types, LAMBDA e : e[1][1] = "Local")

\* TRUE when the local occurs in the term of a call, or in the type a call
\* of sanity_check expects.
OccursIn(c, k) ==
    \/ Mentions(c[3], Local(k))
    \/ c[1] = "sanity_check" /\ Mentions(lift(0, c[5]), Local(k))

\* TRUE when the call opens a binder: type_check of a function space, or
\* sanity_check of a Lambda against a VPi.
Opens(c) ==
    \/ c[1] = "type_check" /\ c[3][1] = "DependentFunctionSpace"
    \/ c[1] = "sanity_check" /\ c[3][1] = "Lambda" /\ c[5][1] = "VPi"

\* C24: a call of the checker at depth d, reached from a top-level call at
\* depth 0, has in Gamma exactly the locals Local(0) .. Local(d - 1), one
\* entry each, and every local in its term or expected type is one of
\* them; when it opens a binder, Local(d) is therefore not yet bound, and
\* the body is checked at depth d + 1 with the entry of Local(d) newest in
\* Gamma; the type a successful top-level type_check returns holds no local.
C24_FreshLocals ==
    probe[1] = "type_check" =>
        /\ \A c \in probe[3][2] :
              /\ Len(LocalEntries(c[4])) = c[2]
              /\ \A k \in 0..MaxLocal :
                    /\ k < c[2] =>
                          Cardinality({i \in DOMAIN c[4].types : c[4].types[i][1] = Local(k)}) = 1
                    /\ OccursIn(c, k) => k < c[2]
              /\ Opens(c) => find(c[4].types, Local(c[2]))[1] = "None"
              /\ \A s \in SubCalls(c) :
                    IF s[2] = c[2] + 1
                    THEN /\ Opens(c)
                         /\ Head(s[4].types)[1] = Local(c[2])
                         /\ Tail(s[4].types) = c[4].types
                         /\ s[4].vals = c[4].vals
                    ELSE s[2] = c[2] /\ s[4] = c[4]
        /\ IsOk(probe[3][1]) =>
              \A k \in 0..MaxLocal : ~Mentions(lift(0, probe[3][1][2]), Local(k))

\* A body opened at depth 2 inside two opened bodies, in a check that
\* succeeds.
C24_Witness ==
    /\ probe[1] = "type_check"
    /\ IsOk(probe[3][1])
    /\ \E c \in probe[3][2] :
          /\ c[2] = 3
          /\ c[1] = "sanity_check"
          /\ c[3] = Inf(Var(Local(0)))
          /\ Len(c[4].types) >= 3

\* C25: index(env, i) returns the i-th most recently pushed entry when i
\* is smaller than the number of entries and fails with the error
\* UnboundVariable when it is not; eval of Bounded(i) under a stack of n
\* values does the same.
C25_BoundedIndexAccess ==
    probe[1] = "index" =>
        IF probe[2][2] < Len(probe[2][1])
        THEN /\ probe[3][1] = Ok(probe[2][1][Len(probe[2][1]) - probe[2][2]])
             /\ probe[3][2] = Ok(probe[2][1][Len(probe[2][1]) - probe[2][2]])
        ELSE /\ IsErr(probe[3][1]) /\ probe[3][1][2] = "UnboundVariable"
             /\ IsErr(probe[3][2]) /\ probe[3][2][2] = "UnboundVariable"

\* The names of the Lambda binders around the body of a chain of Lambdas,
\* outermost first, and the body.
RECURSIVE ChainNames(_)
ChainNames(ast) ==
    IF ast[1] = "AstLambda" THEN <<ast[2]>> \o ChainNames(ast[3]) ELSE <<>>

RECURSIVE ChainBody(_)
ChainBody(ast) == IF ast[1] = "AstLambda" THEN ChainBody(ast[3]) ELSE ast

\* The term under the Lambdas of a lowered chain.
RECURSIVE LambdaBody(_)
LambdaBody(c) == IF c[1] = "Lambda" THEN LambdaBody(c[2]) ELSE c

\* The number of binders between a use and the innermost binder of the
\* name among the binders around it (outermost first).
BindersBetween(names, u) ==
    Len(names) - (CHOOSE i \in DOMAIN names :
                      names[i] = u /\ \A j \in DOMAIN names : names[j] = u => j <= i)

C27_LazyFunctionValues ==
    probe[1] = "lambda" =>
        /\ IsOk(probe[3][1]) /\ probe[3][1][2][1] = "VAbs"
        /\ probe[2][2] = Inf(Bounded(0)) => probe[3][2] = Ok(probe[2][3])
        /\ probe[2][2] = Inf(Bounded(1)) =>
              IF probe[2][1] = <<>>
              THEN IsErr(probe[3][2]) /\ probe[3][2][2] = "UnboundVariable"
              ELSE probe[3][2] = Ok(probe[2][1][Len(probe[2][1])])
        /\ probe[2][2] = Inf(Bounded(MaxStack + 1)) =>
              IsErr(probe[3][2]) /\ probe[3][2][2] = "UnboundVariable"
        /\ probe[2][2] = Inf(ZeroZero) =>
              IsErr(probe[3][2]) /\ probe[3][2][2] = "TypeMismatch"
        /\ probe[2][2] = CheckableZero => probe[3][2] = Ok(VZero)
        /\ probe[2][2] = Lambda(Inf(Bounded(1))) =>
              /\ IsOk(probe[3][2]) /\ probe[3][2][2][1] = "VAbs"
              /\ probe[3][3] = Ok(probe[2][3])

\* A function whose body has an unbound index is a value; applying it is
\* the error.
C27_Witness ==
    /\ probe[1] = "lambda"
    /\ probe[2][2] = Inf(Bounded(MaxStack + 1))
    /\ Len(probe[2][1]) = MaxStack
    /\ IsOk(probe[3][1])
    /\ IsErr(probe[3][2])

\* ---------------------------------------------------------------------
\* The interactive loop of pi-interpreter (main)
\* ---------------------------------------------------------------------
\* log::LevelFilter, the value of --log-level
LogLevels == {"Off", "Error", "Warn", "Info", "Debug", "Trace"}

\* log::error! writes its message unless the filter is Off.
error_enabled(level) == level # "Off"

\* input.trim().to_lowercase() of the lines typed
trim_to_lowercase(line) ==
    CASE line \in {"exit", " Exit ", "EXIT"} -> "exit"
      [] line \in {"show", " SHOW "} -> "show"
      [] OTHER -> line

\* CmdParser::parse of the lines typed: Cmd = Def Identifier "::" Expr ";"
\* or Eval Term ";".
parse(line) ==
    CASE line = "def A :: U ;" -> Ok(StmtDeclare("A", AstUniverse))
      [] line = "def a :: A ;" -> Ok(StmtDeclare("a", AstVar("A")))
      [] line = "def n :: Nat -> Nat ;" -> Ok(StmtDeclare("n", NatToNat))
      [] line = "def z :: foo ;" -> Ok(StmtDeclare("z", AstVar("foo")))
      [] line = "def z :: Zero ;" -> Ok(StmtDeclare("z", AstNum(0)))
      [] line = "eval U ;" -> Ok(StmtEval(AstUniverse))
      [] line = "eval Zero ;" -> Ok(StmtEval(AstNum(0)))
      [] line = "eval a ;" -> Ok(StmtEval(AstVar("a")))
      [] line = "eval foo ;" -> Ok(StmtEval(AstVar("foo")))
      [] line = "eval (n U) ;" -> Ok(StmtEval(AstApp(AstVar("n"), AstUniverse)))
      [] line = "eval (\\x -> x) ;" -> Ok(StmtEval(AstLambda("x", AstVar("x"))))
      [] OTHER -> Err("ParseError", <<"unrecognized token", line>>)

ReplLines ==
    { "exit", " Exit ", "EXIT", "show", " SHOW ", "", "exit now", "eval U", "let x = Zero ;",
      "def A :: U ;", "def a :: A ;", "def n :: Nat -> Nat ;", "def z :: foo ;", "def z :: Zero ;",
      "eval U ;", "eval Zero ;", "eval a ;", "eval foo ;", "eval (n U) ;",
      "eval (\\x -> x) ;" }

\* repl is <<status, log level, last line read, what the last line printed>>.
Repl(status, level, line, printed) == <<status, level, line, printed>>

ReplStatus == repl[1]

ReplLevel == repl[2]

ReplLine == repl[3]

ReplPrinted == repl[4]

Nothing == <<"Nothing">>

\* What log::error!("{}", e) prints under the log level.
log_error(level, e) == IF error_enabled(level) THEN <<"error", e>> ELSE Nothing

ReplInit ==
    /\ env = EmptyTypeCtx
    /\ prev = EmptyTypeCtx
    /\ last = NoStmt
    /\ res = NoStmt
    /\ steps = <<>>
    /\ log = <<>>
    /\ probe = NoStmt
    /\ stlc = NoStmt
    /\ repl \in {Repl("prompt", level, "", <<"banner">>) : level \in LogLevels}

\* One turn of the loop leaves the record of the driver's calls alone.
ReplTurn(status, line, printed) ==
    /\ repl' = Repl(status, ReplLevel, line, printed)
    /\ prev' = env
    /\ UNCHANGED <<steps, log, probe, stlc>>

\* propmt() fails: `?` returns the I/O error from main.
ReadFails ==
    /\ ReplStatus = "prompt"
    /\ ReplTurn("io_error", "", Nothing)
    /\ UNCHANGED <<env, last, res>>

ReadExit ==
    /\ ReplStatus = "prompt"
    /\ \E line \in ReplLines :
          /\ trim_to_lowercase(line) = "exit"
          /\ ReplTurn("exited", line, Nothing)
    /\ UNCHANGED <<env, last, res>>

ReadShow ==
    /\ ReplStatus = "prompt"
    /\ \E line \in ReplLines :
          /\ trim_to_lowercase(line) # "exit"
          /\ trim_to_lowercase(line) = "show"
          /\ ReplTurn("prompt", line, <<"show", env>>)
    /\ UNCHANGED <<env, last, res>>

\* The parse error leaving main through `?` instead of being logged.
ReadUnparsable_returns ==
    /\ ReplStatus = "prompt"
    /\ \E line \in ReplLines :
          /\ trim_to_lowercase(line) \notin {"exit", "show"}
          /\ ~IsOk(parse(line))
          /\ ReplTurn("io_error", line, Nothing)
    /\ UNCHANGED <<env, last, res>>

ReadUnparsable ==
    /\ ReplStatus = "prompt"
    /\ \E line \in ReplLines :
          /\ trim_to_lowercase(line) \notin {"exit", "show"}
          /\ ~IsOk(parse(line))
          /\ ReplTurn("prompt", line, log_error(ReplLevel, parse(line)))
    /\ UNCHANGED <<env, last, res>>

ReadStatement ==
    /\ ReplStatus = "prompt"
    /\ \E line \in ReplLines :
          /\ trim_to_lowercase(line) \notin {"exit", "show"}
          /\ IsOk(parse(line))
          /\ parse(line)[2][1] = "Declare" => Len(env.types) < MaxCtx
          /\ \E o \in {handle_statement(parse(line)[2], env)} :
                /\ env' = o.ctx
                /\ last' = parse(line)[2]
                /\ res' = o.res
                /\ ReplTurn(IF IsPanic(o.res) THEN "panicked" ELSE "prompt", line,
                            IF IsOk(o.res) THEN <<"value", o.res[2]>>
                            ELSE IF IsErr(o.res) THEN log_error(ReplLevel, o.res)
                            ELSE <<"panic", o.res>>)

ReplNext == ReadFails \/ ReadExit \/ ReadShow \/ ReadUnparsable \/ ReadStatement

SpecRepl == ReplInit /\ [][ReplNext]_vars

\* A line has been read since the banner.
Turned == ReplPrinted # <<"banner">>

ReplCommand == trim_to_lowercase(ReplLine)

\* A line was read last, and it did not parse.
Unparsable ==
    /\ Turned
    /\ ReplStatus # "io_error"
    /\ ReplCommand \notin {"exit", "show"}
    /\ ~IsOk(parse(ReplLine))

\* The last line read was a statement and handling it returned an error.
StatementFailed ==
    /\ Turned
    /\ ReplCommand \notin {"exit", "show"}
    /\ IsOk(parse(ReplLine))
    /\ IsErr(res)

\* The loop goes on after a failure with the environment it had; it has
\* ended only on exit or an I/O error; show leaves the environment alone.
ReplGoesOn ==
    /\ Unparsable \/ StatementFailed => ReplStatus = "prompt" /\ env = prev
    /\ ReplStatus # "prompt" =>
          \/ ReplStatus = "exited" /\ ReplCommand = "exit"
          \/ ReplStatus = "io_error" /\ ReplLine = ""
    /\ Turned /\ ReplCommand = "show" => env = prev /\ ReplPrinted = <<"show", env>>

TyInt == <<"Int">>

TyBool == <<"Bool">>

Arrow(arg, ret) == <<"Arrow", arg, ret>>

ExprTerm(n) == <<"Term", n>>

ExprVar(x) == <<"Var", x>>

ExprApp(e1, e2) == <<"App", e1, e2>>

ExprAbs(x, ty, e) == <<"Abs", x, ty, e>>

ExprLet(x, e1, e2) == <<"Let", x, e1, e2>>

ExprIfElse(cond, conseq, alt) == <<"IfElse", cond, conseq, alt>>

\* BinaryExpr::Arith(_) and BinaryExpr::Logical(_), with the operands
ExprBinary(kind, e1, e2) == <<"Binary", kind, e1, e2>>

\* UnaryExpr::Not(_) and UnaryExpr::Neg(_), with the operand
ExprUnary(kind, e) == <<"Unary", kind, e>>

\* self.bindings.pop()
pop(bindings) == IF bindings = <<>> THEN bindings ELSE SubSeq(bindings, 1, Len(bindings) - 1)

\* The arm for Expr::Var taking the first binding of the name pushed.
lookup_var_outermost(bindings, x) ==
    LET I == {i \in DOMAIN bindings : bindings[i][1] = x}
    IN IF I = {} THEN Err("UnboundVariable", x)
       ELSE Ok(bindings[CHOOSE i \in I : \A j \in I : i <= j][2])

\* type_checking, the arm for Expr::Var: self.bindings.iter().rev(), so the
\* binding pushed last wins.
lookup_var(bindings, x) ==
    LET I == {i \in DOMAIN bindings : bindings[i][1] = x}
    IN IF I = {} THEN Err("UnboundVariable", x)
       ELSE Ok(bindings[CHOOSE i \in I : \A j \in I : j <= i][2])

\* Env::type_checking(&mut self, expr): the result and the bindings the
\* call leaves in self.
RECURSIVE type_checking(_, _)
type_checking(bindings, expr) ==
    CASE expr[1] = "Var" -> <<lookup_var(bindings, expr[2]), bindings>>
      [] expr[1] = "Term" -> <<Ok(TyInt), bindings>>
      [] expr[1] = "Abs" ->
            LET r == type_checking(Append(bindings, <<expr[2], expr[3]>>), expr[4])
            IN IF IsOk(r[1]) THEN <<Ok(Arrow(expr[3], r[1][2])), pop(r[2])>> ELSE r
      [] expr[1] = "Let" ->
            LET lhs == type_checking(bindings, expr[3])
                rhs == type_checking(Append(lhs[2], <<expr[2], lhs[1][2]>>), expr[4])
            IN IF ~IsOk(lhs[1]) THEN lhs
               ELSE IF ~IsOk(rhs[1]) THEN rhs
               ELSE <<rhs[1], pop(rhs[2])>>
      [] expr[1] = "IfElse" ->
            LET cond == type_checking(bindings, expr[2])
                conseq == type_checking(cond[2], expr[3])
                alt == type_checking(conseq[2], expr[4])
            IN IF ~IsOk(cond[1]) THEN cond
               ELSE IF cond[1][2] # TyBool
                    THEN <<Err("TypeMismatch", <<TyBool, cond[1][2]>>), cond[2]>>
               ELSE IF ~IsOk(conseq[1]) THEN conseq
               ELSE IF ~IsOk(alt[1]) THEN alt
               ELSE IF conseq[1][2] # alt[1][2]
                    THEN <<Err("TypeMismatch", <<conseq[1][2], alt[1][2]>>), alt[2]>>
               ELSE <<conseq[1], alt[2]>>
      [] expr[1] = "App" ->
            LET e1 == type_checking(bindings, expr[2])
                e2 == type_checking(e1[2], expr[3])
            IN IF ~IsOk(e1[1]) THEN e1
               ELSE IF ~IsOk(e2[1]) THEN e2
               ELSE IF e1[1][2][1] = "Arrow"
                    THEN (IF e1[1][2][2] = e2[1][2] THEN <<Ok(e1[1][2][3]), e2[2]>>
                          ELSE <<Err("TypeMismatch", <<e1[1][2][2], e2[1][2]>>), e2[2]>>)
               ELSE <<Err("TypeMismatch", <<Arrow(e2[1][2], TyInt), e1[1][2]>>), e2[2]>>
      [] expr[1] = "Binary" ->
            LET e1 == type_checking(bindings, expr[3])
                e2 == type_checking(e1[2], expr[4])
                expected == IF expr[2] = "Arith" THEN TyInt ELSE TyBool
            IN IF ~IsOk(e1[1]) THEN e1
               ELSE IF ~IsOk(e2[1]) THEN e2
               ELSE IF e1[1][2] = expected /\ e2[1][2] = expected
                    THEN <<Ok(expected), e2[2]>>
               ELSE <<Err("TypeMismatch", <<expected, e1[1][2]>>), e2[2]>>
      [] expr[1] = "Unary" ->
            LET e == type_checking(bindings, expr[3])
                expected == IF expr[2] = "Not" THEN TyInt ELSE TyBool
            IN IF ~IsOk(e[1]) THEN e
               ELSE IF e[1][2] = expected THEN <<Ok(expected), e[2]>>
               ELSE <<Err("TypeMismatch", <<expected, e[1][2]>>), e[2]>>

\* The most bindings add_binding puts in the Env.
MaxBindings == 2

StlcNames == {"x", "y"}

StlcTypes == {TyInt, TyBool, Arrow(TyInt, TyInt)}

StlcAtoms == {ExprTerm(1), ExprVar("x"), ExprVar("y")}

StlcAbs1 == {ExprAbs(x, ty, e) : x \in StlcNames, ty \in StlcTypes, e \in StlcAtoms}

StlcAbs2 == {ExprAbs(x, ty, e) : x \in StlcNames, ty \in {TyInt, TyBool}, e \in StlcAbs1}

StlcApps ==
    {ExprApp(f, a) : f \in StlcAbs1, a \in StlcAtoms \cup {ExprAbs("y", TyInt, ExprVar("y"))}}
        \cup {ExprApp(f, a) : f \in StlcAtoms, a \in StlcAtoms}

StlcOthers ==
    { ExprLet("x", ExprTerm(1), ExprVar("x")), ExprLet("x", ExprVar("y"), ExprVar("x")),
      ExprLet("x", ExprTerm(1), ExprApp(ExprVar("x"), ExprVar("x"))),
      ExprIfElse(ExprVar("x"), ExprTerm(1), ExprVar("y")),
      ExprIfElse(ExprTerm(1), ExprTerm(1), ExprTerm(1)),
      ExprBinary("Arith", ExprVar("x"), ExprTerm(1)),
      ExprBinary("Logical", ExprVar("x"), ExprVar("y")),
      ExprUnary("Not", ExprVar("x")), ExprUnary("Neg", ExprVar("x")),
      ExprAbs("x", TyInt, ExprBinary("Arith", ExprVar("x"), ExprVar("y"))),
      ExprAbs("x", TyBool, ExprIfElse(ExprVar("x"), ExprVar("y"), ExprTerm(1))) }

StlcExprs == StlcAtoms \cup StlcAbs1 \cup StlcAbs2 \cup StlcApps \cup StlcOthers

\* stlc is <<the bindings of the Env, the bindings before the last call of
\* type_checking, the expression of that call, its result, the bindings
\* that calls of add_binding from outside the checker put in the Env>>.
Stlc(bindings, before, expr, result, added) == <<bindings, before, expr, result, added>>

StlcBindings == stlc[1]

StlcBefore == stlc[2]

StlcExpr == stlc[3]

StlcResult == stlc[4]

StlcAdded == stlc[5]

\* Env::empty_env()
StlcInit ==
    /\ env = EmptyTypeCtx
    /\ prev = EmptyTypeCtx
    /\ last = NoStmt
    /\ res = NoStmt
    /\ steps = <<>>
    /\ log = <<>>
    /\ probe = NoStmt
    /\ repl = NoStmt
    /\ stlc = Stlc(<<>>, <<>>, NoStmt, NoStmt, <<>>)

\* Env::add_binding(x, ty), while the Env is set up for the checks
AddBinding ==
    /\ StlcExpr = NoStmt
    /\ Len(StlcBindings) < MaxBindings
    /\ \E x \in StlcNames, ty \in {TyInt, TyBool} :
          stlc' = Stlc(Append(StlcBindings, <<x, ty>>), StlcBefore, StlcExpr, StlcResult,
                       Append(StlcAdded, <<x, ty>>))
    /\ UNCHANGED <<env, prev, last, res, steps, log, probe, repl>>

\* env.type_checking(&expr)
TypeChecking ==
    /\ Len(StlcBindings) <= MaxBindings
    /\ \E expr \in StlcExprs : \E r \in {type_checking(StlcBindings, expr)} :
          stlc' = Stlc(r[2], StlcBindings, expr, r[1], StlcAdded)
    /\ UNCHANGED <<env, prev, last, res, steps, log, probe, repl>>

StlcNext == AddBinding \/ TypeChecking

SpecStlc == StlcInit /\ [][StlcNext]_vars

\* ---------------------------------------------------------------------
\* Properties of the simply typed checker
\* ---------------------------------------------------------------------
NoType == <<"NoType">>

\* The typing context a list of bindings stands for: each name has the
\* type of its innermost binding.
RECURSIVE Gamma(_)
Gamma(bindings) ==
    IF bindings = <<>> THEN [n \in StlcNames |-> NoType]
    ELSE [Gamma(pop(bindings)) EXCEPT ![bindings[Len(bindings)][1]] = bindings[Len(bindings)][2]]

\* Expressions made of variables, literals, abstractions and applications.
RECURSIVE IsLambdaTerm(_)
IsLambdaTerm(e) ==
    CASE e[1] \in {"Var", "Term"} -> TRUE
      [] e[1] = "Abs" -> IsLambdaTerm(e[4])
      [] e[1] = "App" -> IsLambdaTerm(e[2]) /\ IsLambdaTerm(e[3])
      [] OTHER -> FALSE

\* The type the typing rules of the simply typed lambda calculus give a
\* lambda term in a context, NoType when they give none.
RECURSIVE TypeIn(_, _)
TypeIn(e, g) ==
    CASE e[1] = "Var" -> g[e[2]]
      [] e[1] = "Term" -> TyInt
      [] e[1] = "Abs" ->
            LET t == TypeIn(e[4], [g EXCEPT ![e[2]] = e[3]])
            IN IF t = NoType THEN NoType ELSE Arrow(e[3], t)
      [] e[1] = "App" ->
            LET f == TypeIn(e[2], g)
                a == TypeIn(e[3], g)
            IN IF f[1] = "Arrow" /\ a # NoType /\ f[2] = a THEN f[3] ELSE NoType

\* The type of the body of the abstraction abs with its variable bound, in
\* the context the last call started in.
BodyType(abs) == TypeIn(abs[4], [Gamma(StlcBefore) EXCEPT ![abs[2]] = abs[3]])

\* C16: type_checking of Abs((x, T), e) returns Ok(Arrow(T, T')) where T'
\* is the type of e with x bound to T, the innermost binding of a name
\* winning (and an error when e has no type); \x:Int. x has type
\* Int -> Int; and an abstraction applied to an argument of type T has
\* type T'.
C16_AbsTyping ==
    /\ StlcExpr[1] = "Abs" /\ IsLambdaTerm(StlcExpr) =>
          IF BodyType(StlcExpr) # NoType
          THEN StlcResult = Ok(Arrow(StlcExpr[3], BodyType(StlcExpr)))
          ELSE IsErr(StlcResult)
    /\ StlcExpr = ExprAbs("x", TyInt, ExprVar("x")) => StlcResult = Ok(Arrow(TyInt, TyInt))
    /\ (/\ StlcExpr[1] = "App"
        /\ IsLambdaTerm(StlcExpr)
        /\ StlcExpr[2][1] = "Abs"
        /\ BodyType(StlcExpr[2]) # NoType
        /\ TypeIn(StlcExpr[3], Gamma(StlcBefore)) = StlcExpr[2][3])
          => StlcResult = Ok(BodyType(StlcExpr[2]))

\* An abstraction that binds x twice was checked in an Env that already
\* had bindings: the inner x is the one the body means.
C16_Witness ==
    /\ StlcExpr = ExprAbs("x", TyInt, ExprAbs("x", TyBool, ExprVar("x")))
    /\ StlcBefore # <<>>
    /\ StlcResult = Ok(Arrow(TyInt, Arrow(TyBool, TyBool)))

\* C30: type_checking leaves the bindings of the Env as they were before
\* the call on every return, Ok or Err: the Env holds the bindings that
\* add_binding was called with from outside and no other, so after a failed
\* check of an abstraction or a let, Var(x) for a name bound only inside
\* the failed expression is still an UnboundVariable.
C30_BindingsRestored ==
    /\ StlcBindings = StlcAdded
    /\ (/\ StlcExpr # NoStmt
        /\ StlcExpr[1] = "Var"
        /\ \A i \in DOMAIN StlcAdded : StlcAdded[i][1] # StlcExpr[2])
          => IsErr(StlcResult) /\ StlcResult[2] = "UnboundVariable"

====
